---- MODULE Spec2Model ----
(***************************************************************************)
(* A model of the document ingestion and question answering pipeline of    *)
(* backend/ingestion.py and backend/rag_pipeline.py.                       *)
(*                                                                         *)
(* Character strings are modelled exactly, as run-length encoded sequences *)
(* of segments: <<[s |-> <<"E", "r">>, n |-> 1], [s |-> <<"x">>, n |-> 9]>> *)
(* is the string "Er" followed by 9 times "x".  len(), startswith(),       *)
(* strip() and slicing are computed on it, so a long document costs no more *)
(* than a short one.                                                       *)
(***************************************************************************)
EXTENDS Integers, Sequences, FiniteSets, TLC

VARIABLES
    pd_pc,        \* process_document: "idle", "embed", "add", "persist", "return", "done"
    file_path,    \* process_document: its file_path argument
    env,          \* what the file system, the network and the libraries answer in this call
    extracted,    \* process_document: (text, document_metadata) of line 375
    chunks,       \* process_document: splitter.split_text(text)
    metadatas,    \* process_document: one metadata dict per chunk
    store,        \* the Chroma collection: a sequence of [text, metadata]
    store0,       \* the collection when the current call started
    ops,          \* the store operations the current call has performed
    result,       \* how the current call ended: returned a count, or raised
    lang_text,    \* detect_language: its argument
    lang_result,  \* detect_language: what it returned, "none" before the call
    ga_pc,        \* get_answer: "idle", "retrieving", "retrieved", "qa", "done"
    ga_query,     \* get_answer: its query
    ga_chunk_count,     \* get_answer: its chunk_count
    ga_reranker_type,   \* get_answer: its reranker_type
    ga_use_compression, \* get_answer: its use_compression
    ga_index,     \* the documents the vector index holds
    ga_retriever, \* get_answer: retriever of line 229
    ga_trace,     \* get_answer: the steps this call has taken
    ga_faults,    \* get_answer: the failures this call has met
    ga_result,    \* get_answer: the dict it returned, or that it raised
    ch_pc,        \* chat: "idle", "called", "done"
    ch_result,    \* chat: the response it returned, or that it raised
    ga_docs,      \* get_answer: docs of line 232
    ga_sources,   \* get_answer: sources of lines 253-271
    ga_language,  \* get_answer: detected_language of lines 239-249
    ga_index0,    \* get_answer: the vector store as it was when line 232 searched it
    ga_context,   \* get_answer: the documents given to the LLM for the answer
    cc_pc,        \* compress_context_if_needed: "idle", "compress", "done"
    cc_context,   \* compress_context_if_needed: its context
    cc_max_tokens,\* compress_context_if_needed: its max_tokens
    cc_llm,       \* compress_context_if_needed: what the LLM answered in this call
    cc_calls,     \* compress_context_if_needed: the LLM calls it has made
    cc_result,    \* compress_context_if_needed: what it returned, or that it raised
    db,           \* the Chroma directory, its database file, its collections; the uploads
    db0,          \* db when clear_database was called
    cd_pc,        \* clear_database: "idle", "decide", "done", "status"
    cv_result,    \* clear_database: what clear_vector_database returned
    cv_errors,    \* the messages of the exceptions clear_vector_database met
    cv_removal,   \* what the removal of the directory did during clear_vector_database
    sc_result,    \* clear_database: what simple_clear_vector_database returned
    cd_result,    \* clear_database: what it returned
    ds_result,    \* get_database_status: what it returned after the clear
    uf_pc,        \* upload_files: "idle", "loop", "join", "done"
    uf_files,     \* upload_files: the files of the request
    uf_i,         \* upload_files: the place of the current file in files
    uf_results,   \* upload_files: results
    uf_total,     \* upload_files: total_chunks
    uf_cells,     \* upload_files: the result dicts made so far, one per started thread
    uf_bind,      \* upload_files: the dict the name result is bound to now
    uf_workers,   \* upload_files: the thread of each file: "none", "running", "finished"
    uf_store,     \* upload_files: the chunks its threads have written to the vector store
    uf_response   \* upload_files: what it returned

ingestVars == <<pd_pc, file_path, env, extracted, chunks, metadatas, store, store0, ops, result>>
langVars == <<lang_text, lang_result>>
answerVars ==
    <<ga_pc, ga_query, ga_chunk_count, ga_reranker_type, ga_use_compression, ga_index,
      ga_retriever, ga_trace, ga_faults, ga_result, ga_docs, ga_sources, ga_language,
      ga_index0, ga_context, ch_pc, ch_result>>
compressVars == <<cc_pc, cc_context, cc_max_tokens, cc_llm, cc_calls, cc_result>>
maintVars == <<db, db0, cd_pc, cv_result, cv_errors, cv_removal, sc_result, cd_result, ds_result>>
uploadVars ==
    <<uf_pc, uf_files, uf_i, uf_results, uf_total, uf_cells, uf_bind, uf_workers, uf_store, uf_response>>
vars == <<ingestVars, langVars, answerVars, compressVars, maintVars, uploadVars>>

\* the operations at rest
LangIdle == lang_text = <<>> /\ lang_result = "none"

AnswerIdle ==
    /\ ga_pc = "idle"
    /\ ga_query = <<>>
    /\ ga_docs = <<>>
    /\ ga_sources = <<>>
    /\ ga_language = "none"
    /\ ga_chunk_count = 3
    /\ ga_reranker_type = "none"
    /\ ga_use_compression = TRUE
    /\ ga_index = {}
    /\ ga_index0 = {}
    /\ ga_context = <<>>
    /\ ga_retriever = [kind |-> "none", k |-> 0]
    /\ ga_trace = <<>>
    /\ ga_faults = {}
    /\ ga_result = [kind |-> "none"]
    /\ ch_pc = "idle"
    /\ ch_result = [kind |-> "none"]

NoDatabase == [dir |-> FALSE, file |-> FALSE, collections |-> {}, uploads |-> 0]

MaintIdle ==
    /\ db = NoDatabase
    /\ db0 = NoDatabase
    /\ cd_pc = "idle"
    /\ cv_result = [kind |-> "none"]
    /\ cv_errors = {}
    /\ cv_removal = [rmtree |-> <<>>, directory_removed |-> FALSE]
    /\ sc_result = [kind |-> "none"]
    /\ cd_result = [kind |-> "none"]
    /\ ds_result = [kind |-> "none"]

UploadIdle ==
    /\ uf_pc = "idle"
    /\ uf_files = <<>>
    /\ uf_i = 0
    /\ uf_results = <<>>
    /\ uf_total = 0
    /\ uf_cells = <<>>
    /\ uf_bind = 0
    /\ uf_workers = <<>>
    /\ uf_store = <<>>
    /\ uf_response = [kind |-> "none"]

CompressIdle ==
    /\ cc_pc = "idle"
    /\ cc_context = <<>>
    /\ cc_max_tokens = 0
    /\ cc_llm = [kind |-> "none", text |-> <<>>]
    /\ cc_calls = 0
    /\ cc_result = [kind |-> "none", text |-> <<>>, calls |-> 0]

-----------------------------------------------------------------------------
(* Bounds of the model *)

\* pages of a PDF, paragraphs of a DOCX
MaxParts == 2
\* chunks the splitter returns for one document
MaxChunks == 3
\* phrases of a text given to detect_language
MaxSegs == 2
\* documents the retriever returns
MaxDocs == 3
\* documents in a collection
MaxCount == 2
\* files in the uploads directory
MaxUploads == 1
\* files in one upload request
MaxFiles == 2
\* the length of the short contexts given to compress_context_if_needed
MaxContext == 9

-----------------------------------------------------------------------------
(* Strings *)

Min(a, b) == IF a <= b THEN a ELSE b
Max(a, b) == IF a >= b THEN a ELSE b

\* a literal string, from its characters
Lit(s) == IF s = <<>> THEN <<>> ELSE <<[s |-> s, n |-> 1]>>

\* k times the string s
Repeat(s, k) == IF k = 0 \/ s = <<>> THEN <<>> ELSE <<[s |-> s, n |-> k]>>

\* k times the character ch
Fill(ch, k) == Repeat(<<ch>>, k)

\* the length of one segment: n times the string s
SegLen(g) == Len(g.s) * g.n

\* len(t)
RECURSIVE TLen(_)
TLen(t) == IF t = <<>> THEN 0 ELSE SegLen(Head(t)) + TLen(Tail(t))

\* t[i - 1], for 1 <= i <= len(t)
RECURSIVE CharAt(_, _)
CharAt(t, i) ==
    LET g == Head(t) IN
    IF i <= SegLen(g) THEN g.s[((i - 1) % Len(g.s)) + 1]
    ELSE CharAt(Tail(t), i - SegLen(g))

\* t.startswith(p), p a sequence of characters
StartsWith(t, p) == TLen(t) >= Len(p) /\ \A i \in 1..Len(p) : CharAt(t, i) = p[i]

Whitespace == {" ", "\n", "\t"}

\* not t.strip()
IsBlank(t) == \A i \in 1..Len(t) : \A j \in 1..Len(t[i].s) : t[i].s[j] \in Whitespace

\* g[a:b] of one segment, for 0 <= a < b <= len(g): the end of a repetition,
\* whole repetitions, the start of a repetition
SegSlice(g, a, b) ==
    LET m == Len(g.s)
        firstWhole == (a + m - 1) \div m
        lastWhole == b \div m
    IN  IF firstWhole > lastWhole THEN Lit(SubSeq(g.s, (a % m) + 1, b % m))
        ELSE (IF a % m = 0 THEN <<>> ELSE Lit(SubSeq(g.s, (a % m) + 1, m)))
             \o (IF lastWhole > firstWhole
                 THEN <<[s |-> g.s, n |-> lastWhole - firstWhole]>> ELSE <<>>)
             \o (IF b % m = 0 THEN <<>> ELSE Lit(SubSeq(g.s, 1, b % m)))

\* t[s:e], for 0 <= s <= e
RECURSIVE Slice(_, _, _)
Slice(t, s, e) ==
    IF t = <<>> \/ e <= 0 \/ s >= e THEN <<>>
    ELSE LET g == Head(t) IN
         IF s >= SegLen(g) THEN Slice(Tail(t), s - SegLen(g), e - SegLen(g))
         ELSE SegSlice(g, s, Min(e, SegLen(g))) \o Slice(Tail(t), 0, e - SegLen(g))

\* str(e) of an exception: some message
ExcMsg == Fill("m", 12)

-----------------------------------------------------------------------------
(* File paths: plain sequences of characters *)

PathStartsWith(p, prefix) == Len(p) >= Len(prefix) /\ SubSeq(p, 1, Len(prefix)) = prefix

UpperLetters == <<"A", "B", "C", "D", "E", "F", "G", "H", "I", "J", "K", "L", "M", "N", "O", "P", "Q", "R", "S", "T", "U", "V", "W", "X", "Y", "Z">>
LowerLetters == <<"a", "b", "c", "d", "e", "f", "g", "h", "i", "j", "k", "l", "m", "n", "o", "p", "q", "r", "s", "t", "u", "v", "w", "x", "y", "z">>

\* ch.lower()
LowerChar(ch) ==
    IF \E i \in 1..Len(UpperLetters) : UpperLetters[i] = ch
    THEN LowerLetters[CHOOSE i \in 1..Len(UpperLetters) : UpperLetters[i] = ch]
    ELSE ch

\* s.lower()
Lower(p) == [i \in 1..Len(p) |-> LowerChar(p[i])]

\* Path(p).name: what follows the last "/"
RECURSIVE PathName(_)
PathName(p) ==
    IF \E i \in 1..Len(p) : p[i] = "/"
    THEN PathName(SubSeq(p, 1 + CHOOSE i \in 1..Len(p) : p[i] = "/" /\ \A j \in 1..(i-1) : p[j] # "/", Len(p)))
    ELSE p

\* Path(p).suffix: the name from its last ".", unless the name starts there
Suffix(p) ==
    LET name == PathName(p)
        dots == {i \in 2..Len(name) : name[i] = "."}
    IN  IF dots = {} \/ name[Len(name)] = "." THEN <<>>
        ELSE SubSeq(name, CHOOSE i \in dots : \A j \in dots : j <= i, Len(name))

detect_file_type(p) ==
    IF PathStartsWith(p, <<"h", "t", "t", "p", ":", "/", "/">>) \/ PathStartsWith(p, <<"h", "t", "t", "p", "s", ":", "/", "/">>) THEN "url"
    ELSE LET file_extension == Lower(Suffix(p)) IN
         CASE file_extension = <<".", "p", "d", "f">> -> "pdf"
           [] file_extension = <<".", "d", "o", "c", "x">> -> "docx"
           [] file_extension = <<".", "d", "o", "c">> -> "doc"
           [] file_extension = <<".", "t", "x", "t">> -> "txt"
           [] file_extension = <<".", "h", "t", "m", "l">> -> "html"
           [] file_extension = <<".", "h", "t", "m">> -> "html"
           [] OTHER -> "unknown"

\* the characters of a file type, for the messages that quote it
TypeChars(ft) ==
    CASE ft = "pdf" -> <<"p", "d", "f">> [] ft = "docx" -> <<"d", "o", "c", "x">> [] ft = "doc" -> <<"d", "o", "c">>
      [] ft = "txt" -> <<"t", "x", "t">> [] ft = "html" -> <<"h", "t", "m", "l">> [] ft = "url" -> <<"u", "r", "l">>
      [] OTHER -> <<"u", "n", "k", "n", "o", "w", "n">>

FilePaths ==
    { <<"a", ".", "p", "d", "f">>, <<"a", ".", "P", "D", "F">>, <<"a", ".", "d", "o", "c", "x">>, <<"a", ".", "d", "o", "c">>, <<"d", "/", "a", ".", "t", "x", "t">>, <<"a", ".", "h", "t", "m", "l">>, <<"a", ".", "h", "t", "m">>,
      <<"a", ".", "x", "y", "z">>, <<"a">>, <<"h", "t", "t", "p", ":", "/", "/", "h">>, <<"h", "t", "t", "p", "s", ":", "/", "/", "h">> }

-----------------------------------------------------------------------------
(* What the world outside the program answers during one call: the file    *)
(* system, the document libraries, the web server.                         *)

DefaultEnv ==
    [ open       |-> "ok",     \* opening and parsing the file: "ok" or "raise"
      parts      |-> <<>>,     \* the page texts of a PDF, the paragraph texts of a DOCX
      body       |-> <<>>,     \* the text of a DOC, TXT or HTML file
      has_title  |-> FALSE,    \* the HTML has a <title>
      fetch      |-> "ok",     \* the verified GET and raise_for_status
      retry      |-> "ok",     \* the unverified GET and raise_for_status, after an SSL error
      html_ctype |-> TRUE,     \* the response's content type is HTML
      parse      |-> "ok",     \* BeautifulSoup on the response: "ok" or "fail"
      lines      |-> <<>> ]    \* the lines of the main content of the web page

\* sequences of at most n elements of S
RECURSIVE SeqsUpTo(_, _)
SeqsUpTo(S, n) ==
    IF n = 0 THEN {<<>>}
    ELSE LET shorter == SeqsUpTo(S, n - 1) IN
         shorter \cup {Append(q, x) : q \in {r \in shorter : Len(r) = n - 1}, x \in S}

PageTexts == {Lit(<<"\n">>), Fill("x", 300), Fill("x", 650)}
ParagraphTexts == {<<>>, Fill("x", 200)}
Bodies ==
    { <<>>, Lit(<<" ", "\n">>), Fill("x", 40), Lit(<<"E", "r", "r", "o", "r">>) \o Fill("x", 35),
      Fill("x", 860), Fill("x", 950) }
PageLines == {Lit(<<"a", "b">>), Fill("x", 500)}

EnvsFor(ft) ==
    CASE ft = "pdf" ->
           {[DefaultEnv EXCEPT !.open = "raise"]}
           \cup {[DefaultEnv EXCEPT !.parts = ps] : ps \in SeqsUpTo(PageTexts, MaxParts)}
      [] ft = "docx" ->
           {[DefaultEnv EXCEPT !.open = "raise"]}
           \cup {[DefaultEnv EXCEPT !.parts = ps] : ps \in SeqsUpTo(ParagraphTexts, MaxParts)}
      [] ft \in {"doc", "txt"} ->
           {[DefaultEnv EXCEPT !.open = "raise"]}
           \cup {[DefaultEnv EXCEPT !.body = b] : b \in Bodies}
      [] ft = "html" ->
           {[DefaultEnv EXCEPT !.open = "raise"]}
           \cup {[DefaultEnv EXCEPT !.body = b, !.has_title = t] :
                    b \in Bodies, t \in BOOLEAN}
      [] ft = "url" ->
           {[DefaultEnv EXCEPT !.fetch = f] : f \in {"timeout", "connection", "http", "other"}}
           \cup {[DefaultEnv EXCEPT !.fetch = "ssl", !.retry = "fail"]}
           \cup {[DefaultEnv EXCEPT !.fetch = f, !.parse = "fail", !.html_ctype = h] :
                    f \in {"ok", "ssl"}, h \in BOOLEAN}
           \cup {[DefaultEnv EXCEPT !.fetch = "ssl", !.lines = <<Fill("x", 500)>>]}
           \cup {[DefaultEnv EXCEPT !.html_ctype = h, !.has_title = t, !.lines = ls] :
                    h \in BOOLEAN, t \in BOOLEAN, ls \in SeqsUpTo(PageLines, MaxParts)}
      [] OTHER -> {DefaultEnv}

-----------------------------------------------------------------------------
(* Extractors: each returns (text, page_metadata), or raises *)

Ok(text, page_metadata) == [raised |-> FALSE, text |-> text, metadata |-> page_metadata]
Raise == [raised |-> TRUE, text |-> <<>>, metadata |-> <<>>]

\* the span every in-band failure returns
ErrorSpan(error_text) ==
    [page_number |-> 1, char_start |-> 0, char_end |-> TLen(error_text), error |-> TRUE]

UrlErrorSpan(error_text, url) ==
    [page_number |-> 1, char_start |-> 0, char_end |-> TLen(error_text), error |-> TRUE,
     url |-> url]

\* the loop over the pages of the document, page_num counting from 0
RECURSIVE PdfPages(_, _, _, _)
PdfPages(doc, page_num, text, page_metadata) ==
    IF page_num >= Len(doc) THEN Ok(text, page_metadata)
    ELSE LET page_text == doc[page_num + 1]
             text2 == text \o page_text
         IN  PdfPages(doc, page_num + 1, text2,
                 IF ~IsBlank(page_text)
                 THEN Append(page_metadata,
                        [page_number |-> page_num + 1,
                         char_start |-> TLen(text2) - TLen(page_text),
                         char_end |-> TLen(text2),
                         page_text_length |-> TLen(page_text)])
                 ELSE page_metadata)

extract_text_from_pdf(e) ==
    IF e.open = "raise" THEN Raise ELSE PdfPages(e.parts, 0, <<>>, <<>>)

chars_per_page == 3000

\* the loop over the paragraphs of the document, para_num counting from 1
RECURSIVE DocxParagraphs(_, _, _, _)
DocxParagraphs(paragraphs, para_num, text, page_metadata) ==
    IF para_num > Len(paragraphs) THEN Ok(text, page_metadata)
    ELSE LET para_text == paragraphs[para_num] \o Lit(<<"\n">>)
             text2 == text \o para_text
             char_start == TLen(text2) - TLen(para_text)
             estimated_page == Max(1, (char_start \div chars_per_page) + 1)
         IN  DocxParagraphs(paragraphs, para_num + 1, text2,
                 IF ~IsBlank(para_text)
                 THEN Append(page_metadata,
                        [page_number |-> estimated_page,
                         paragraph_number |-> para_num,
                         char_start |-> char_start,
                         char_end |-> TLen(text2),
                         paragraph_text_length |-> TLen(para_text),
                         estimated_page |-> TRUE])
                 ELSE page_metadata)

extract_text_from_docx(e) ==
    IF e.open = "raise"
    THEN LET error_text == Lit(<<"E", "r", "r", "o", "r", " ", "p", "r", "o", "c", "e", "s", "s", "i", "n", "g", " ", "D", "O", "C", "X", " ", "f", "i", "l", "e", ":", " ">>) \o ExcMsg
         IN  Ok(error_text, <<ErrorSpan(error_text)>>)
    ELSE DocxParagraphs(e.parts, 1, <<>>, <<>>)

extract_text_from_doc(e) ==
    IF e.open = "raise"
    THEN LET error_text == Lit(<<"E", "r", "r", "o", "r", " ", "r", "e", "a", "d", "i", "n", "g", " ", "D", "O", "C", " ", "f", "i", "l", "e", ":", " ">>) \o ExcMsg
         IN  Ok(error_text, <<ErrorSpan(error_text)>>)
    ELSE Ok(e.body, <<[page_number |-> 1, char_start |-> 0, char_end |-> TLen(e.body),
                       note |-> "DOC file - exact page numbers not available"]>>)

\* text.count(ch)
RECURSIVE CountChar(_, _)
CountChar(t, ch) ==
    IF t = <<>> THEN 0
    ELSE Cardinality({j \in 1..Len(Head(t).s) : Head(t).s[j] = ch}) * Head(t).n
           + CountChar(Tail(t), ch)

extract_text_from_txt(e) ==
    IF e.open = "raise" THEN Raise
    ELSE Ok(e.body, <<[page_number |-> 1, char_start |-> 0, char_end |-> TLen(e.body),
                       line_count |-> CountChar(e.body, "\n") + 1]>>)

PageTitle == <<"T">>

\* the places of a segment's characters that are no whitespace
Inked(g) == {j \in 1..Len(g.s) : g.s[j] \notin Whitespace}

\* t.lstrip()
RECURSIVE LStrip(_)
LStrip(t) ==
    IF t = <<>> THEN <<>>
    ELSE LET g == Head(t)
             first == CHOOSE j \in Inked(g) : \A k \in Inked(g) : j <= k
         IN  IF Inked(g) = {} THEN LStrip(Tail(t))
             ELSE IF first = 1 THEN t
             ELSE Lit(SubSeq(g.s, first, Len(g.s))) \o Repeat(g.s, g.n - 1) \o Tail(t)

\* t.rstrip()
RECURSIVE RStrip(_)
RStrip(t) ==
    IF t = <<>> THEN <<>>
    ELSE LET g == t[Len(t)]
             front == SubSeq(t, 1, Len(t) - 1)
             last == CHOOSE j \in Inked(g) : \A k \in Inked(g) : k <= j
         IN  IF Inked(g) = {} THEN RStrip(front)
             ELSE IF last = Len(g.s) THEN t
             ELSE front \o Repeat(g.s, g.n - 1) \o Lit(SubSeq(g.s, 1, last))

\* t.strip()
Strip(t) == RStrip(LStrip(t))

extract_text_from_html_file(e) ==
    IF e.open = "raise" THEN Raise
    ELSE LET title == IF e.has_title THEN PageTitle ELSE <<"U", "n", "t", "i", "t", "l", "e", "d", " ", "H", "T", "M", "L", " ", "D", "o", "c", "u", "m", "e", "n", "t">>
             text == Strip(e.body)
         IN  Ok(text, <<[page_number |-> 1, char_start |-> 0, char_end |-> TLen(text),
                         title |-> title, file_type |-> "HTML"]>>)

max_chars == 50000

\* the lines kept by the clean-up loop, joined by "\n"
RECURSIVE CleanedText(_)
CleanedText(lines) ==
    IF lines = <<>> THEN <<>>
    ELSE LET line == Strip(Head(lines))
             rest == CleanedText(Tail(lines))
         IN  IF line # <<>> /\ TLen(line) > 2
             THEN (IF rest = <<>> THEN line ELSE line \o Lit(<<"\n">>) \o rest)
             ELSE rest

_parse_html_content(e, url) ==
    IF e.parse = "fail"
    THEN LET error_text == Lit(<<"E", "r", "r", "o", "r", " ", "p", "a", "r", "s", "i", "n", "g", " ", "H", "T", "M", "L", " ", "c", "o", "n", "t", "e", "n", "t", " ", "f", "r", "o", "m", " ">>) \o Lit(url)
                             \o Lit(<<":", " ">>) \o ExcMsg
         IN  Ok(error_text, <<UrlErrorSpan(error_text, url)>>)
    ELSE LET title == IF e.has_title THEN PageTitle ELSE url
             cleaned == CleanedText(e.lines)
             was_truncated == TLen(cleaned) > max_chars
             cleaned_text ==
                 IF was_truncated
                 THEN Slice(cleaned, 0, max_chars)
                        \o Lit(<<"\n", "\n", "[", "C", "o", "n", "t", "e", "n", "t", " ", "t", "r", "u", "n", "c", "a", "t", "e", "d", " ", "d", "u", "e", " ", "t", "o", " ", "s", "i", "z", "e", " ", "l", "i", "m", "i", "t", "]">>)
                 ELSE cleaned
             final_text == Lit(<<"C", "o", "n", "t", "e", "n", "t", " ", "f", "r", "o", "m", " ">>) \o Lit(url) \o Lit(<<":", "\n", "\n">>) \o cleaned_text
         IN  Ok(final_text,
                <<[page_number |-> 1, char_start |-> 0, char_end |-> TLen(final_text),
                   title |-> title, url |-> url, file_type |-> "Web Page",
                   was_truncated |-> was_truncated]>>)

ContentType == <<"a", "p", "p", "l", "i", "c", "a", "t", "i", "o", "n", "/", "p", "d", "f">>

UrlError(prefix, url, suffix) ==
    LET error_text == Lit(prefix) \o Lit(url) \o Lit(suffix) \o ExcMsg
    IN  Ok(error_text, <<UrlErrorSpan(error_text, url)>>)

\* Fetches that tries the unverified GET after any failure of the first one
Fetches_retryAll(e) ==
    IF e.fetch = "ok" THEN <<"verify">> ELSE <<"verify", "no_verify">>

\* lines 192-221: the calls of session.get made on the way, in order: the one
\* with verify=True, and after an SSLError the one with verify=False
Fetches(e) ==
    IF e.fetch = "ssl" THEN <<"verify", "no_verify">> ELSE <<"verify">>

extract_text_from_url(url, e) ==
    CASE e.fetch = "ok" ->
           IF ~e.html_ctype
           THEN LET parsed == _parse_html_content(e, url)
                    warning_text ==
                        Lit(<<"W", "a", "r", "n", "i", "n", "g", ":", " ", "C", "o", "n", "t", "e", "n", "t", " ", "t", "y", "p", "e", " ", "'">>) \o Lit(ContentType)
                          \o Lit(<<"'", " ", "m", "a", "y", " ", "n", "o", "t", " ", "b", "e", " ", "H", "T", "M", "L", ".", " ", "A", "t", "t", "e", "m", "p", "t", "i", "n", "g", " ", "t", "o", " ", "p", "a", "r", "s", "e", " ", "a", "n", "y", "w", "a", "y", ".", "\n", "\n">>)
                          \o parsed.text
                IN  Ok(warning_text, parsed.metadata)
           ELSE _parse_html_content(e, url)
      [] e.fetch = "ssl" ->
           IF e.retry = "ok" THEN _parse_html_content(e, url)
           ELSE UrlError(<<"E", "r", "r", "o", "r", " ", "f", "e", "t", "c", "h", "i", "n", "g", " ", "c", "o", "n", "t", "e", "n", "t", " ", "f", "r", "o", "m", " ">>, url, <<" ", "(", "S", "S", "L", " ", "r", "e", "t", "r", "y", " ", "f", "a", "i", "l", "e", "d", ")", ":", " ">>)
      [] e.fetch = "timeout" ->
           UrlError(<<"T", "i", "m", "e", "o", "u", "t", " ", "e", "r", "r", "o", "r", " ", "f", "e", "t", "c", "h", "i", "n", "g", " ", "c", "o", "n", "t", "e", "n", "t", " ", "f", "r", "o", "m", " ">>, url, <<":", " ">>)
      [] e.fetch = "connection" ->
           UrlError(<<"C", "o", "n", "n", "e", "c", "t", "i", "o", "n", " ", "e", "r", "r", "o", "r", " ", "f", "e", "t", "c", "h", "i", "n", "g", " ", "c", "o", "n", "t", "e", "n", "t", " ", "f", "r", "o", "m", " ">>, url, <<":", " ">>)
      [] e.fetch = "http" ->
           UrlError(<<"R", "e", "q", "u", "e", "s", "t", " ", "e", "r", "r", "o", "r", " ", "f", "e", "t", "c", "h", "i", "n", "g", " ", "c", "o", "n", "t", "e", "n", "t", " ", "f", "r", "o", "m", " ">>, url, <<":", " ">>)
      [] OTHER ->
           UrlError(<<"U", "n", "e", "x", "p", "e", "c", "t", "e", "d", " ", "e", "r", "r", "o", "r", " ", "f", "e", "t", "c", "h", "i", "n", "g", " ", "c", "o", "n", "t", "e", "n", "t", " ", "f", "r", "o", "m", " ">>, url, <<":", " ">>)

Extractors == {"pdf", "docx", "doc", "txt", "html", "url"}

RunExtractor(file_type, p, e) ==
    CASE file_type = "pdf" -> extract_text_from_pdf(e)
      [] file_type = "docx" -> extract_text_from_docx(e)
      [] file_type = "doc" -> extract_text_from_doc(e)
      [] file_type = "txt" -> extract_text_from_txt(e)
      [] file_type = "html" -> extract_text_from_html_file(e)
      [] OTHER -> extract_text_from_url(p, e)

\* extract_text_from_file without its try/except around the extractor
extract_text_from_file_unguarded(p, e) ==
    LET file_type == detect_file_type(p) IN
    IF file_type \in Extractors
    THEN RunExtractor(file_type, p, e)
    ELSE LET error_text == Lit(<<"U", "n", "s", "u", "p", "p", "o", "r", "t", "e", "d", " ", "f", "i", "l", "e", " ", "t", "y", "p", "e", ":", " ">>) \o Lit(TypeChars(file_type))
         IN  Ok(error_text, <<ErrorSpan(error_text)>>)

extract_text_from_file(p, e) ==
    LET file_type == detect_file_type(p) IN
    IF file_type \in Extractors
    THEN LET r == RunExtractor(file_type, p, e) IN
         IF r.raised
         THEN LET error_text == Lit(<<"E", "r", "r", "o", "r", " ", "p", "r", "o", "c", "e", "s", "s", "i", "n", "g", " ">>) \o Lit(TypeChars(file_type))
                                  \o Lit(<<" ", "f", "i", "l", "e", ":", " ">>) \o ExcMsg
              IN  Ok(error_text, <<ErrorSpan(error_text)>>)
         ELSE r
    ELSE LET error_text == Lit(<<"U", "n", "s", "u", "p", "p", "o", "r", "t", "e", "d", " ", "f", "i", "l", "e", " ", "t", "y", "p", "e", ":", " ">>) \o Lit(TypeChars(file_type))
         IN  Ok(error_text, <<ErrorSpan(error_text)>>)

-----------------------------------------------------------------------------
(* The splitter: RecursiveCharacterTextSplitter(chunk_size, chunk_overlap). *)
(* It is a library; the model lets it cut the text into windows of at most  *)
(* chunk_size characters, each starting at most chunk_overlap characters    *)
(* before the end of the one before it, wherever its separators fall.       *)

chunk_size == 500
chunk_overlap == 50

\* the window lengths and the overlaps the model tries
SplitWidths == {chunk_size - 100, chunk_size}
SplitOverlaps == {0, chunk_overlap}

\* the ways to cut text[s:] of a text of length n into at most k windows
RECURSIVE Windows(_, _, _)
Windows(n, s, k) ==
    IF k = 0 THEN {}
    ELSE UNION { LET e == Min(s + w, n) IN
                 IF e = n THEN {<<[start |-> s, end |-> e]>>}
                 ELSE {<<[start |-> s, end |-> e]>> \o rest :
                          rest \in UNION {Windows(n, e - o, k - 1) : o \in SplitOverlaps}}
               : w \in SplitWidths }

\* the results split_text(text) may give.  No chunk at all is the answer for
\* a text without content, and the one process_document provides for at
\* line 389 whatever the text.
split_text(text) ==
    IF IsBlank(text) THEN {<<>>}
    ELSE {<<>>} \cup {[i \in 1..Len(ws) |-> Slice(text, ws[i].start, ws[i].end)] :
                        ws \in Windows(TLen(text), 0, MaxChunks)}

-----------------------------------------------------------------------------
(* process_document *)

EmbeddingModel == "text-embedding-3-small"

\* NothingExtracted without the test for the error marker
NothingExtracted_blankOnly(text) == IsBlank(text)

\* line 377: nothing usable was extracted
NothingExtracted(text) == StartsWith(text, <<"E", "r", "r", "o", "r">>) \/ IsBlank(text)

\* line 405
FileName(p) == IF ~PathStartsWith(p, <<"h", "t", "t", "p">>) THEN PathName(p) ELSE p

\* line 429
SpanOverlaps(doc_meta, current_pos, chunk_end_pos) ==
    ~(chunk_end_pos <= doc_meta.char_start \/ current_pos >= doc_meta.char_end)

\* BestMetadata that takes the last span that overlaps the chunk
BestMetadata_lastMatch(document_metadata, current_pos, chunk_end_pos) ==
    LET hits == {j \in 1..Len(document_metadata) :
                    SpanOverlaps(document_metadata[j], current_pos, chunk_end_pos)}
    IN  IF hits = {} THEN <<>>
        ELSE <<document_metadata[CHOOSE j \in hits : \A h \in hits : j >= h]>>

\* lines 422-431: the first span that overlaps the chunk, or none
BestMetadata(document_metadata, current_pos, chunk_end_pos) ==
    LET hits == {j \in 1..Len(document_metadata) :
                    SpanOverlaps(document_metadata[j], current_pos, chunk_end_pos)}
    IN  IF hits = {} THEN <<>>
        ELSE <<document_metadata[CHOOSE j \in hits : \A h \in hits : j <= h]>>

CopiedKeys == {"page_number", "paragraph_number", "estimated_page", "title", "url"}

\* lines 412-446: the metadata of chunk i, found at current_pos
ChunkMetadata(p, document_metadata, i, current_pos, chunk_end_pos) ==
    LET base_metadata ==
            [source |-> FileName(p), file_type |-> detect_file_type(p),
             embedding_model |-> EmbeddingModel, chunk_index |-> i, file_path |-> p]
        best == BestMetadata(document_metadata, current_pos, chunk_end_pos)
    IN  IF best = <<>> THEN base_metadata
        ELSE base_metadata @@ [k \in CopiedKeys \cap DOMAIN best[1] |-> best[1][k]]

\* lines 408-447: the loop over the chunks, i counting from 0
RECURSIVE ChunkMetadatas(_, _, _, _, _, _)
ChunkMetadatas(p, document_metadata, cs, i, current_pos, acc) ==
    IF i >= Len(cs) THEN acc
    ELSE LET chunk_end_pos == current_pos + TLen(cs[i + 1])
         IN  ChunkMetadatas(p, document_metadata, cs, i + 1, chunk_end_pos,
                 Append(acc, ChunkMetadata(p, document_metadata, i, current_pos,
                                           chunk_end_pos)))

\* lines 409, 421, 447: current_pos when the loop reaches chunk i, i counting
\* from 0: it starts at 0 and each chunk moves it on by its length
RECURSIVE CurrentPos(_, _)
CurrentPos(cs, i) ==
    IF i = 0 THEN 0 ELSE CurrentPos(cs, i - 1) + TLen(cs[i])

\* AddedTexts that leaves out the last chunk
AddedTexts_dropLast(cs, ms) ==
    [i \in 1..(Min(Len(cs), Len(ms)) - 1) |-> [text |-> cs[i], metadata |-> ms[i]]]

\* line 452: what add_texts(chunks, metadatas) appends to the collection
AddedTexts(cs, ms) == [i \in 1..Min(Len(cs), Len(ms)) |-> [text |-> cs[i], metadata |-> ms[i]]]

\* line 462
ReturnedCount(cs) == Len(cs)

Returned(n) == [kind |-> "returned", value |-> n]
Raised == [kind |-> "raised", value |-> 0]
NoResult == [kind |-> "none", value |-> 0]

\* lines 371-398: extract, give up on nothing usable, split, give up on no chunk
PD_Start ==
    /\ pd_pc = "idle"
    /\ \E p \in FilePaths : \E e \in EnvsFor(detect_file_type(p)) :
         LET x == extract_text_from_file(p, e) IN
         /\ file_path' = p
         /\ env' = e
         /\ extracted' = x
         /\ store0' = store
         /\ ops' = <<>>
         /\ metadatas' = <<>>
         /\ IF x.raised
            THEN chunks' = <<>> /\ result' = Raised /\ pd_pc' = "done"
            ELSE IF NothingExtracted(x.text)
            THEN chunks' = <<>> /\ result' = Returned(0) /\ pd_pc' = "done"
            ELSE \E cs \in split_text(x.text) :
                   /\ chunks' = cs
                   /\ IF cs = <<>>
                      THEN result' = Returned(0) /\ pd_pc' = "done"
                      ELSE result' = NoResult /\ pd_pc' = "embed"
    /\ UNCHANGED store
    /\ UNCHANGED <<langVars, answerVars, compressVars, maintVars, uploadVars>>

\* lines 398-447: the embeddings, the Chroma client, the metadata of the chunks
PD_Embed ==
    /\ pd_pc = "embed"
    /\ metadatas' = ChunkMetadatas(file_path, extracted.metadata, chunks, 0, 0, <<>>)
    /\ pd_pc' = "add"
    /\ UNCHANGED <<file_path, env, extracted, chunks, store, store0, ops, result>>
    /\ UNCHANGED <<langVars, answerVars, compressVars, maintVars, uploadVars>>

\* line 452: vectorstore.add_texts(chunks, metadatas=metadatas)
PD_AddTexts ==
    /\ pd_pc = "add"
    /\ store' = store \o AddedTexts(chunks, metadatas)
    /\ ops' = Append(ops, "add_texts")
    /\ pd_pc' = "persist"
    /\ UNCHANGED <<file_path, env, extracted, chunks, metadatas, store0, result>>
    /\ UNCHANGED <<langVars, answerVars, compressVars, maintVars, uploadVars>>

\* line 457: vectorstore.persist()
PD_Persist ==
    /\ pd_pc = "persist"
    /\ ops' = Append(ops, "persist")
    /\ pd_pc' = "return"
    /\ UNCHANGED <<file_path, env, extracted, chunks, metadatas, store, store0, result>>
    /\ UNCHANGED <<langVars, answerVars, compressVars, maintVars, uploadVars>>

\* line 462: return len(chunks)
PD_Return ==
    /\ pd_pc = "return"
    /\ result' = Returned(ReturnedCount(chunks))
    /\ pd_pc' = "done"
    /\ UNCHANGED <<file_path, env, extracted, chunks, metadatas, store, store0, ops>>
    /\ UNCHANGED <<langVars, answerVars, compressVars, maintVars, uploadVars>>

\* lines 464-469: get_embeddings, Chroma, add_texts or persist raises, and
\* process_document raises it again
PD_Raise ==
    /\ pd_pc \in {"embed", "add", "persist"}
    /\ result' = Raised
    /\ pd_pc' = "done"
    /\ UNCHANGED <<file_path, env, extracted, chunks, metadatas, store, store0, ops>>
    /\ UNCHANGED <<langVars, answerVars, compressVars, maintVars, uploadVars>>

\* the collection is kept on disk: a call may find what earlier runs left in it
PriorStores ==
    { <<>>,
      <<[text |-> Fill("x", 120),
         metadata |-> [source |-> <<"o", "l", "d", ".", "t", "x", "t">>, file_type |-> "txt",
                       embedding_model |-> EmbeddingModel, chunk_index |-> 0,
                       file_path |-> <<"u", "p", "l", "o", "a", "d", "s", "/", "o", "l", "d", ".", "t", "x", "t">>, page_number |-> 1]]>> }

IngestIdle ==
    /\ pd_pc = "idle"
    /\ file_path = <<>>
    /\ env = DefaultEnv
    /\ extracted = Ok(<<>>, <<>>)
    /\ chunks = <<>>
    /\ metadatas = <<>>
    /\ store = <<>>
    /\ store0 = <<>>
    /\ ops = <<>>
    /\ result = NoResult

IngestInit ==
    /\ pd_pc = "idle"
    /\ file_path = <<>>
    /\ env = DefaultEnv
    /\ extracted = Ok(<<>>, <<>>)
    /\ chunks = <<>>
    /\ metadatas = <<>>
    /\ store \in PriorStores
    /\ store0 = store
    /\ ops = <<>>
    /\ result = NoResult
    /\ LangIdle /\ AnswerIdle /\ CompressIdle /\ MaintIdle /\ UploadIdle

IngestNext ==
    \/ PD_Start
    \/ PD_Embed
    \/ PD_AddTexts
    \/ PD_Persist
    \/ PD_Return
    \/ PD_Raise

SpecIngest == IngestInit /\ [][IngestNext]_vars

-----------------------------------------------------------------------------
(* detect_language.  A character is named by a string: the ASCII characters *)
(* by themselves, the Vietnamese letters in Telex notation ("af" is a with   *)
(* grave, "oos" is o with circumflex and acute, "dd" is d with stroke).      *)

\* line 28: the character class of the regular expression
VietnameseChars ==
    {"af", "as", "aj", "ar", "ax", "aa", "aaf", "aas", "aaj", "aar", "aax", "aw", "awf", "aws", "awj", "awr", "awx", "ef", "es", "ej", "er", "ex", "ee", "eef", "ees", "eej", "eer", "eex", "if", "is", "ij", "ir", "ix", "of", "os", "oj", "or", "ox", "oo", "oof", "oos", "ooj", "oor", "oox", "ow", "owf", "ows", "owj", "owr", "owx", "uf", "us", "uj", "ur", "ux", "uw", "uwf", "uws", "uwj", "uwr", "uwx", "yf", "ys", "yj", "yr", "yx", "dd"}

Digits == {"0", "1", "2", "3", "4", "5", "6", "7", "8", "9"}

\* c.isalpha()
IsAlpha(ch) ==
    \/ \E i \in 1..Len(LowerLetters) : LowerLetters[i] = ch \/ UpperLetters[i] = ch
    \/ ch \in VietnameseChars

\* \w of the regular expressions
IsWordChar(ch) == IsAlpha(ch) \/ ch \in Digits \/ ch = "_"

\* lines 38-44
vietnamese_words ==
    { <<"l", "af">>, <<"c", "ur", "a">>, <<"v", "af">>, <<"t", "r", "o", "n", "g">>, <<"c", "os">>, <<"dd", "uw", "owj", "c">>, <<"v", "ows", "i">>, <<"n", "af", "y">>, <<"c", "h", "o">>,
      <<"t", "uwf">>, <<"m", "ooj", "t">>, <<"c", "as", "c">>, <<"n", "g", "uw", "owf", "i">>, <<"k", "h", "oo", "n", "g">>, <<"t", "oo", "i">>, <<"b", "aj", "n">>, <<"g", "if">>, <<"n", "h", "uw">>,
      <<"t", "h", "ees">>, <<"n", "af", "o">>, <<"v", "eef">>, <<"k", "h", "i">>, <<"dd", "ax">>, <<"s", "ex">>, <<"dd", "eer">>, <<"n", "h", "uwx", "n", "g">>, <<"s", "a", "u">>,
      <<"t", "h", "e", "o">>, <<"c", "ux", "n", "g">>, <<"l", "aj", "i">>, <<"h", "a", "y">>, <<"n", "h", "i", "eef", "u">>, <<"v", "i", "eej", "c">>, <<"q", "u", "a">>, <<"v", "af", "o">>, <<"r", "a">>,
      <<"l", "ee", "n">>, <<"x", "u", "oos", "n", "g">>, <<"t", "r", "ee", "n">>, <<"d", "uw", "ows", "i">>, <<"n", "g", "o", "af", "i">>, <<"b", "ee", "n">>, <<"g", "i", "uwx", "a">>, <<"c", "aaf", "n">>,
      <<"p", "h", "ar", "i">>, <<"n", "ee", "n">>, <<"c", "os", " ", "t", "h", "eer">>, <<"s", "a", "o">>, <<"dd", "aa", "y">>, <<"dd", "os">>, <<"k", "i", "a">>, <<"b", "a", "o">>, <<"m", "aas", "y">>,
      <<"dd", "aa", "u">>, <<"a", "i">>, <<"c", "as", "i">>, <<"c", "o", "n">>, <<"c", "h", "i", "ees", "c">>, <<"l", "af", "m">>, <<"x", "e", "m">>, <<"b", "i", "ees", "t">>, <<"h", "i", "eer", "u">>,
      <<"n", "os", "i">>, <<"v", "i", "ees", "t">> }

\* lines 60-67: the alternatives of the patterns, each between two \b
vietnamese_patterns ==
    { <<"l", "af", "m", " ", "s", "a", "o">>, <<"t", "h", "ees", " ", "n", "af", "o">>, <<"n", "h", "uw", " ", "t", "h", "ees", " ", "n", "af", "o">>, <<"r", "a", " ", "s", "a", "o">>,
      <<"l", "af", " ", "g", "if">>, <<"g", "if", " ", "l", "af">>, <<"c", "as", "i", " ", "g", "if">>,
      <<"owr", " ", "dd", "aa", "u">>, <<"dd", "aa", "u", " ", "l", "af">>, <<"t", "aj", "i", " ", "dd", "aa", "u">>,
      <<"k", "h", "i", " ", "n", "af", "o">>, <<"l", "us", "c", " ", "n", "af", "o">>, <<"b", "a", "o", " ", "g", "i", "owf">>,
      <<"t", "aj", "i", " ", "s", "a", "o">>, <<"v", "if", " ", "s", "a", "o">>, <<"s", "a", "o", " ", "l", "aj", "i">>,
      <<"c", "os", " ", "p", "h", "ar", "i">>, <<"p", "h", "ar", "i", " ", "k", "h", "oo", "n", "g">>, <<"dd", "us", "n", "g", " ", "k", "h", "oo", "n", "g">> }

\* the characters of a text
Chars(t) == [i \in 1..TLen(t) |-> CharAt(t, i)]

\* line 34, with the threshold one step too low: >= instead of >
DiacriticsAbove_atOrAbove(vietnamese_count, total_chars) ==
    total_chars > 0 /\ 100 * vietnamese_count >= 5 * total_chars

\* line 34: total_chars > 0 and vietnamese_count / total_chars > 0.05.  The
\* quotient of two counts is 0.05 as a float exactly when it is 1/20.
DiacriticsAbove(vietnamese_count, total_chars) ==
    total_chars > 0 /\ 100 * vietnamese_count > 5 * total_chars

\* line 56: word_ratio > 0.1
WordRatioAbove(vietnamese_word_count, word_count) ==
    10 * vietnamese_word_count > word_count

\* line 47: re.sub(r'[^\w\s]', ' ', text.lower())
Normalized(lower) ==
    [i \in 1..Len(lower) |->
        IF IsWordChar(lower[i]) \/ lower[i] \in Whitespace THEN lower[i] ELSE " "]

\* line 48: where the words of normalized_text.split() start
WordStarts(normalized) ==
    {i \in 1..Len(normalized) :
        normalized[i] \notin Whitespace /\ (i = 1 \/ normalized[i - 1] \in Whitespace)}

\* the word that starts at i
WordAt(normalized, i) ==
    SubSeq(normalized, i,
           CHOOSE j \in i..Len(normalized) :
              /\ \A k \in i..j : normalized[k] \notin Whitespace
              /\ (j = Len(normalized) \/ normalized[j + 1] \in Whitespace))

\* line 70: re.search(r'\b(...)\b', text.lower()) for one alternative
PatternFound(lower, pattern) ==
    \E i \in 1..(Len(lower) - Len(pattern) + 1) :
        /\ lower[i] = pattern[1]
        /\ SubSeq(lower, i, i + Len(pattern) - 1) = pattern
        /\ (i = 1 \/ ~IsWordChar(lower[i - 1]))
        /\ (i + Len(pattern) - 1 = Len(lower) \/ ~IsWordChar(lower[i + Len(pattern)]))

detect_language(text) ==
    IF text = <<>> \/ IsBlank(text) THEN "english"
    ELSE LET chars == Chars(text)
             lower == Lower(chars)
             vietnamese_count ==
                 Cardinality({i \in 1..Len(lower) : lower[i] \in VietnameseChars})
             total_chars == Cardinality({i \in 1..Len(chars) : IsAlpha(chars[i])})
         IN  IF DiacriticsAbove(vietnamese_count, total_chars) THEN "vietnamese"
             ELSE LET normalized_text == Normalized(lower)
                      words == WordStarts(normalized_text)
                      vietnamese_word_count ==
                          Cardinality({i \in words :
                                         WordAt(normalized_text, i) \in vietnamese_words})
                  IN  IF words = {} THEN "english"
                      ELSE IF WordRatioAbove(vietnamese_word_count, Cardinality(words))
                      THEN "vietnamese"
                      ELSE IF \E pattern \in vietnamese_patterns : PatternFound(lower, pattern)
                      THEN "vietnamese"
                      ELSE "english"

\* the inputs of detect_language: the examples, and texts of at most MaxSegs
\* phrases, the filler word some times over
FillerCounts == {1, 4, 9, 19}
Phrases ==
    {Repeat(<<"w", "o", "r", "d", " ">>, k) : k \in FillerCounts}
    \cup { Lit(<<"c", "h", "af", "o", " ">>), Lit(<<"s", "a", "o", " ">>), Lit(<<"r", "a", " ", "s", "a", "o", " ">>), Lit(<<"r", "a", ",", " ", "s", "a", "o", " ">>),
           Lit(<<"e", "x", "t", "r", "a", " ", "s", "a", "o", " ">>), Lit(<<"L", "af", " ", "G", "if", " ">>), Lit(<<"?", "!", " ">>), Lit(<<" ", "\n">>), Lit(<<"7", " ">>) }

RECURSIVE Concat(_)
Concat(q) == IF q = <<>> THEN <<>> ELSE Head(q) \o Concat(Tail(q))

LangTexts ==
    { Lit(<<"x", "i", "n", " ", "c", "h", "af", "o", ",", " ", "b", "aj", "n", " ", "k", "h", "or", "e", " ", "k", "h", "oo", "n", "g", "?">>), Lit(<<"W", "h", "a", "t", " ", "i", "s", " ", "t", "h", "e", " ", "c", "a", "p", "i", "t", "a", "l", " ", "o", "f", " ", "F", "r", "a", "n", "c", "e", "?">>) }
    \cup {Concat(q) : q \in SeqsUpTo(Phrases, MaxSegs)}

LangInit ==
    /\ lang_text \in LangTexts
    /\ lang_result = "none"
    /\ IngestIdle /\ AnswerIdle /\ CompressIdle /\ MaintIdle /\ UploadIdle

DetectLanguage ==
    /\ lang_result = "none"
    /\ lang_result' = detect_language(lang_text)
    /\ UNCHANGED <<lang_text, ingestVars, answerVars, compressVars, maintVars, uploadVars>>

LangNext == DetectLanguage

SpecLang == LangInit /\ [][LangNext]_vars

-----------------------------------------------------------------------------
(* get_answer: the language of the answer and the source references.  An   *)
(* optional value is a sequence: <<>> is None, <<v>> is the value v.       *)

SampleChars == 200
SampleDocs == 3

\* line 244: " ".join([doc.page_content[:200] for doc in docs[:3]])
RECURSIVE JoinSpace(_)
JoinSpace(q) ==
    IF q = <<>> THEN <<>>
    ELSE IF Len(q) = 1 THEN q[1]
    ELSE q[1] \o Lit(<<" ">>) \o JoinSpace(Tail(q))

SampleContent(docs) ==
    JoinSpace([i \in 1..Min(SampleDocs, Len(docs)) |->
                  Slice(docs[i].page_content, 0, SampleChars)])

\* lines 239-249 with the language of the documents taken whatever it is
DetectedLanguage_docsDecide(query, docs) ==
    IF docs # <<>> THEN detect_language(SampleContent(docs)) ELSE detect_language(query)

\* lines 239-249
DetectedLanguage(query, docs) ==
    LET detected_language == detect_language(query) IN
    IF docs # <<>>
    THEN LET doc_language == detect_language(SampleContent(docs)) IN
         IF doc_language = "vietnamese" THEN "vietnamese" ELSE detected_language
    ELSE detected_language

\* metadata.get(key)
Get(metadata, key) == IF key \in DOMAIN metadata THEN <<metadata[key]>> ELSE <<>>

\* metadata.get(key, default)
GetOr(metadata, key, default) == IF key \in DOMAIN metadata THEN metadata[key] ELSE default

\* lines 255-264
SourceInfo(metadata) ==
    [ file_name        |-> GetOr(metadata, "source", <<"U", "n", "k", "n", "o", "w", "n">>),
      file_path        |-> GetOr(metadata, "file_path", <<>>),
      page_number      |-> Get(metadata, "page_number"),
      paragraph_number |-> Get(metadata, "paragraph_number"),
      estimated_page   |-> GetOr(metadata, "estimated_page", FALSE),
      title            |-> Get(metadata, "title"),
      url              |-> Get(metadata, "url"),
      file_type        |-> GetOr(metadata, "file_type", "unknown") ]

DigitChars == <<"0", "1", "2", "3", "4", "5", "6", "7", "8", "9">>

\* str(n) of a number n >= 0
RECURSIVE DecimalDigits(_)
DecimalDigits(n) ==
    IF n < 10 THEN <<DigitChars[n + 1]>>
    ELSE Append(DecimalDigits(n \div 10), DigitChars[(n % 10) + 1])

\* str(v) of an optional number
StrOf(v) == IF v = <<>> THEN <<"N", "o", "n", "e">> ELSE DecimalDigits(v[1])

\* line 267 without the "_" between the name and the page
SourceKey_noSeparator(source_info) ==
    source_info.file_name \o StrOf(source_info.page_number)

\* line 267: f"{source_info['file_name']}_{source_info.get('page_number', 'no_page')}"
SourceKey(source_info) ==
    source_info.file_name \o <<"_">> \o StrOf(source_info.page_number)

\* lines 253-271: the loop over docs
RECURSIVE Sources(_, _, _)
Sources(docs, sources, seen_sources) ==
    IF docs = <<>> THEN sources
    ELSE LET source_info == SourceInfo(Head(docs).metadata)
             source_key == SourceKey(source_info)
         IN  IF source_key \notin seen_sources
             THEN Sources(Tail(docs), Append(sources, source_info),
                          seen_sources \cup {source_key})
             ELSE Sources(Tail(docs), sources, seen_sources)

\* what the retriever may return
Doc(content, source, more) ==
    [ page_content |-> content,
      metadata |-> [source |-> source, file_path |-> <<"u", "p", "l", "o", "a", "d", "s", "/">> \o source,
                    embedding_model |-> EmbeddingModel, chunk_index |-> 0] @@ more ]

DocPool ==
    { Doc(Repeat(<<"w", "o", "r", "d", " ">>, 50), <<"a", "1">>, [file_type |-> "pdf", page_number |-> 1]),
      Doc(Repeat(<<"c", "h", "af", "o", " ">>, 6), <<"a", "1">>,
          [file_type |-> "docx", page_number |-> 1, paragraph_number |-> 2,
           estimated_page |-> TRUE]),
      Doc(Repeat(<<"w", "o", "r", "d", " ">>, 40) \o Repeat(<<"c", "h", "af", "o", " ">>, 30), <<"a">>,
          [file_type |-> "pdf", page_number |-> 11]),
      Doc(Lit(<<"r", "a", " ", "s", "a", "o", " ">>) \o Repeat(<<"w", "o", "r", "d", " ">>, 19), <<"a", "1">>, [file_type |-> "unknown"]),
      Doc(Repeat(<<"w", "o", "r", "d", " ">>, 3), <<"h", "t", "t", "p", ":", "/", "/", "h">>,
          [file_type |-> "url", page_number |-> 1, title |-> PageTitle,
           url |-> <<"h", "t", "t", "p", ":", "/", "/", "h">>]) }

Queries ==
    { Lit(<<"W", "h", "a", "t", " ", "i", "s", " ", "t", "h", "e", " ", "c", "a", "p", "i", "t", "a", "l", " ", "o", "f", " ", "F", "r", "a", "n", "c", "e", "?">>), Lit(<<"x", "i", "n", " ", "c", "h", "af", "o", ",", " ", "b", "aj", "n", " ", "k", "h", "or", "e", " ", "k", "h", "oo", "n", "g", "?">>) }

\* the documents of a small index
ChatIndex == {d \in DocPool : TLen(d.page_content) < 50}

DefaultChunkCount == 3

ChunkCounts == {1, 2, DefaultChunkCount}

\* the three values the code knows, and one it does not
RerankerTypes == {"none", "cohere", "llm", "bm25"}

\* CohereRerank keeps its default top_n
CohereTopN == 3

\* get_reranked_retriever whose fallbacks give back the base retriever
get_reranked_retriever_baseFallback(k, reranker_type, made) ==
    IF reranker_type = "cohere"
    THEN (IF made = "ok" THEN [kind |-> "cohere", k |-> k * 2] ELSE [kind |-> "plain", k |-> k * 2])
    ELSE IF reranker_type = "llm"
    THEN (IF made = "ok" THEN [kind |-> "llm", k |-> k * 2] ELSE [kind |-> "plain", k |-> k * 2])
    ELSE [kind |-> "plain", k |-> k]

\* lines 132-173: made is what building the reranker does: "ok", or the
\* failure it raises
get_reranked_retriever(k, reranker_type, made) ==
    IF reranker_type = "cohere"
    THEN (IF made = "ok" THEN [kind |-> "cohere", k |-> k * 2] ELSE [kind |-> "plain", k |-> k])
    ELSE IF reranker_type = "llm"
    THEN (IF made = "ok" THEN [kind |-> "llm", k |-> k * 2] ELSE [kind |-> "plain", k |-> k])
    ELSE [kind |-> "plain", k |-> k]

\* what building the reranker may do
RerankerOutcomes(reranker_type) ==
    IF reranker_type = "cohere" THEN {"ok", "rerank_import_error", "rerank_no_credentials"}
    ELSE IF reranker_type = "llm" THEN {"ok", "rerank_no_credentials"}
    ELSE {"ok"}

\* the most documents retriever.get_relevant_documents returns: the k of a
\* similarity search, the top_n of the Cohere reranker among the 2k candidates,
\* every one of the 2k candidates the LLM extractor finds something in
RetrieverLimit(retriever) ==
    IF retriever.kind = "cohere" THEN Min(CohereTopN, retriever.k)
    ELSE retriever.k

\* how retriever.get_relevant_documents may fail
RetrievalFaults(retriever) ==
    IF retriever.kind = "plain" THEN {"search_error"} ELSE {"search_error", "rerank_api_error"}

\* line 276 with the reranker forgotten
CompressionBranch_anyReranker(use_compression, reranker_type) == use_compression

\* line 276: use_compression and reranker_type == "none"
CompressionBranch(use_compression, reranker_type) ==
    use_compression /\ reranker_type = "none"

AnswerReturned(answer, compression_used) ==
    [ kind |-> "returned",
      answer |-> answer,
      sources |-> ga_sources,
      chunks_used |-> Len(ga_docs),
      compression_used |-> compression_used,
      language_detected |-> ga_language ]

AnswerRaised == [kind |-> "raised"]

AnswerInit ==
    /\ ga_pc = "idle"
    /\ ga_query = <<>>
    /\ ga_docs = <<>>
    /\ ga_sources = <<>>
    /\ ga_language = "none"
    /\ ga_chunk_count = DefaultChunkCount
    /\ ga_reranker_type = "none"
    /\ ga_use_compression = TRUE
    /\ ga_index = DocPool
    /\ ga_index0 = {}
    /\ ga_context = <<>>
    /\ ga_retriever = [kind |-> "none", k |-> 0]
    /\ ga_trace = <<>>
    /\ ga_faults = {}
    /\ ga_result = [kind |-> "none"]
    /\ ch_pc = "idle"
    /\ ch_result = [kind |-> "none"]
    /\ IngestIdle /\ LangIdle /\ CompressIdle /\ MaintIdle /\ UploadIdle

\* lines 213-229: the call, the LLM client, the vector store, the retriever
GA_Begin(query, chunk_count, reranker_type, use_compression) ==
    /\ ga_pc = "idle"
    /\ ga_query' = query
    /\ ga_chunk_count' = chunk_count
    /\ ga_reranker_type' = reranker_type
    /\ ga_use_compression' = use_compression
    /\ ga_trace' = <<"call">>
    /\ \/ \E fault \in {"llm_client_error", "vectorstore_error"} :
            /\ ga_faults' = {fault}
            /\ ga_result' = AnswerRaised
            /\ ga_retriever' = ga_retriever
            /\ ga_pc' = "done"
       \/ \E made \in RerankerOutcomes(reranker_type) :
            /\ ga_faults' = {made} \ {"ok"}
            /\ ga_result' = ga_result
            /\ ga_retriever' = get_reranked_retriever(chunk_count, reranker_type, made)
            /\ ga_pc' = "retrieving"
    /\ UNCHANGED <<ga_index, ga_docs, ga_sources, ga_language, ga_index0, ga_context>>
    /\ UNCHANGED <<ingestVars, langVars, compressVars, maintVars, uploadVars>>

\* get_answer(query): the parameters at their defaults
GA_Call ==
    /\ ch_pc = "idle"
    /\ \E query \in Queries : GA_Begin(query, DefaultChunkCount, "none", TRUE)
    /\ UNCHANGED <<ch_pc, ch_result>>

\* lines 232-271: retrieve, detect the language, build the source references
GA_Retrieve ==
    /\ ga_pc = "retrieving"
    /\ \E docs \in SeqsUpTo(ga_index, Min(RetrieverLimit(ga_retriever), MaxDocs)) :
         /\ ga_docs' = docs
         /\ ga_language' = DetectedLanguage(ga_query, docs)
         /\ ga_sources' = Sources(docs, <<>>, {})
    /\ ga_index0' = ga_index
    /\ ga_pc' = "retrieved"
    /\ ga_trace' = Append(ga_trace, "retrieve")
    /\ UNCHANGED <<ga_query, ga_chunk_count, ga_reranker_type, ga_use_compression, ga_index,
                   ga_retriever, ga_faults, ga_result, ga_context, ch_pc, ch_result>>
    /\ UNCHANGED <<ingestVars, langVars, compressVars, maintVars, uploadVars>>

\* line 232: the search, or the reranker at work in it, raises; nothing catches it
GA_RetrieveRaises ==
    /\ ga_pc = "retrieving"
    /\ \E fault \in RetrievalFaults(ga_retriever) : ga_faults' = ga_faults \cup {fault}
    /\ ga_result' = AnswerRaised
    /\ ga_pc' = "done"
    /\ ga_trace' = Append(ga_trace, "retrieve_failed")
    /\ UNCHANGED <<ga_query, ga_chunk_count, ga_reranker_type, ga_use_compression, ga_index,
                   ga_retriever, ga_docs, ga_sources, ga_language, ga_index0, ga_context,
                   ch_pc, ch_result>>
    /\ UNCHANGED <<ingestVars, langVars, compressVars, maintVars, uploadVars>>

\* lines 276-301: the context of the documents, compressed if needed, given to
\* the LLM; a failure is caught and leads on to the chain
GA_Compress ==
    /\ ga_pc = "retrieved"
    /\ CompressionBranch(ga_use_compression, ga_reranker_type)
    /\ \/ /\ ga_result' = AnswerReturned("direct", TRUE)
          /\ ga_context' = ga_docs
          /\ ga_faults' = ga_faults
          /\ ga_trace' = Append(ga_trace, "compress")
          /\ ga_pc' = "done"
       \/ /\ ga_result' = ga_result
          /\ ga_context' = ga_context
          /\ ga_faults' = ga_faults \cup {"predict_error"}
          /\ ga_trace' = Append(ga_trace, "compress_failed")
          /\ ga_pc' = "qa"
    /\ UNCHANGED <<ga_query, ga_chunk_count, ga_reranker_type, ga_use_compression, ga_index,
                   ga_retriever, ga_docs, ga_sources, ga_language, ga_index0, ch_pc, ch_result>>
    /\ UNCHANGED <<ingestVars, langVars, compressVars, maintVars, uploadVars>>

\* line 316: qa_chain.run(query) searches the vector store itself, through the
\* same retriever, and gives what it finds to the LLM.  A store that is as it
\* was at line 232 gives the same documents again.
ChainDocuments ==
    IF ga_index = ga_index0 THEN {ga_docs}
    ELSE SeqsUpTo(ga_index, Min(RetrieverLimit(ga_retriever), MaxDocs))

\* lines 303-324: the retrieval QA chain; nothing catches what it raises
GA_QAChain ==
    /\ \/ ga_pc = "qa"
       \/ ga_pc = "retrieved" /\ ~CompressionBranch(ga_use_compression, ga_reranker_type)
    /\ \/ /\ ga_result' = AnswerReturned("chain", FALSE)
          /\ ga_context' \in ChainDocuments
          /\ ga_faults' = ga_faults
          /\ ga_trace' = Append(ga_trace, "qa")
       \/ /\ ga_result' = AnswerRaised
          /\ ga_context' = ga_context
          /\ ga_faults' = ga_faults \cup {"chain_error"}
          /\ ga_trace' = Append(ga_trace, "qa_failed")
    /\ ga_pc' = "done"
    /\ UNCHANGED <<ga_query, ga_chunk_count, ga_reranker_type, ga_use_compression, ga_index,
                   ga_retriever, ga_docs, ga_sources, ga_language, ga_index0, ch_pc, ch_result>>
    /\ UNCHANGED <<ingestVars, langVars, compressVars, maintVars, uploadVars>>

AnswerNext ==
    \/ GA_Call
    \/ GA_Retrieve
    \/ GA_RetrieveRaises
    \/ GA_Compress
    \/ GA_QAChain

SpecAnswer == AnswerInit /\ [][AnswerNext]_vars

-----------------------------------------------------------------------------
(* chat: the endpoint in front of get_answer *)

ChatInit ==
    /\ ga_pc = "idle"
    /\ ga_query = <<>>
    /\ ga_docs = <<>>
    /\ ga_sources = <<>>
    /\ ga_language = "none"
    /\ ga_chunk_count = DefaultChunkCount
    /\ ga_reranker_type = "none"
    /\ ga_use_compression = TRUE
    /\ ga_index = ChatIndex
    /\ ga_index0 = {}
    /\ ga_context = <<>>
    /\ ga_retriever = [kind |-> "none", k |-> 0]
    /\ ga_trace = <<>>
    /\ ga_faults = {}
    /\ ga_result = [kind |-> "none"]
    /\ ch_pc = "idle"
    /\ ch_result = [kind |-> "none"]
    /\ IngestIdle /\ LangIdle /\ CompressIdle /\ MaintIdle /\ UploadIdle

\* app.py lines 164-179: the form values, handed to get_answer
CH_Call ==
    /\ ch_pc = "idle"
    /\ \E query \in Queries : \E chunk_count \in ChunkCounts :
          \E reranker_type \in RerankerTypes : \E use_compression \in BOOLEAN :
             GA_Begin(query, chunk_count, reranker_type, use_compression)
    /\ ch_pc' = "called"
    /\ ch_result' = ch_result

\* app.py lines 172-193: what get_answer raises leaves chat as it is; what it
\* returns is copied into the response
CH_Respond ==
    /\ ch_pc = "called"
    /\ ga_pc = "done"
    /\ ch_result' =
          IF ga_result.kind = "raised" THEN [kind |-> "raised"]
          ELSE [ kind |-> "returned",
                 answer |-> ga_result.answer,
                 sources |-> ga_result.sources,
                 chunk_count |-> ga_chunk_count,
                 chunks_used |-> ga_result.chunks_used,
                 reranker_type |-> ga_reranker_type,
                 compression_used |-> ga_result.compression_used,
                 language_detected |-> ga_result.language_detected ]
    /\ ch_pc' = "done"
    /\ UNCHANGED <<ga_pc, ga_query, ga_chunk_count, ga_reranker_type, ga_use_compression,
                   ga_index, ga_retriever, ga_trace, ga_faults, ga_result, ga_docs,
                   ga_sources, ga_language, ga_index0, ga_context>>
    /\ UNCHANGED <<ingestVars, langVars, compressVars, maintVars, uploadVars>>

ChatNext ==
    \/ CH_Call
    \/ GA_Retrieve
    \/ GA_RetrieveRaises
    \/ GA_Compress
    \/ GA_QAChain
    \/ CH_Respond

SpecChat == ChatInit /\ [][ChatNext]_vars

-----------------------------------------------------------------------------
(* chat while the vector store changes: another request of the same server *)
(* ingests a document or clears the store during the call of get_answer    *)

\* a chunk that an ingestion adds
IngestedDoc == Doc(Repeat(<<"n", "e", "w", " ">>, 5), <<"b">>, [file_type |-> "txt", page_number |-> 1])

\* get_answer has searched the store at line 232, has not yet run the chain,
\* and the store is still as it was: one change during a request is followed
AnswerRunning == ga_pc \in {"retrieved", "qa"} /\ ga_index = ga_index0

\* ingestion.py line 452, in another request: add_texts
VS_Ingest ==
    /\ AnswerRunning
    /\ IngestedDoc \notin ga_index
    /\ ga_index' = ga_index \cup {IngestedDoc}
    /\ UNCHANGED <<ga_pc, ga_query, ga_chunk_count, ga_reranker_type, ga_use_compression,
                   ga_retriever, ga_trace, ga_faults, ga_result, ga_docs, ga_sources,
                   ga_language, ga_index0, ga_context, ch_pc, ch_result>>
    /\ UNCHANGED <<ingestVars, langVars, compressVars, maintVars, uploadVars>>

\* ingestion.py lines 491-498, in another request: the collections are deleted
VS_Clear ==
    /\ AnswerRunning
    /\ ga_index # {}
    /\ ga_index' = {}
    /\ UNCHANGED <<ga_pc, ga_query, ga_chunk_count, ga_reranker_type, ga_use_compression,
                   ga_retriever, ga_trace, ga_faults, ga_result, ga_docs, ga_sources,
                   ga_language, ga_index0, ga_context, ch_pc, ch_result>>
    /\ UNCHANGED <<ingestVars, langVars, compressVars, maintVars, uploadVars>>

ChatStoreNext ==
    \/ CH_Call
    \/ GA_Retrieve
    \/ GA_RetrieveRaises
    \/ GA_Compress
    \/ GA_QAChain
    \/ CH_Respond
    \/ VS_Ingest
    \/ VS_Clear

SpecChatStore == ChatInit /\ [][ChatStoreNext]_vars

-----------------------------------------------------------------------------
(* compress_context_if_needed *)

DefaultMaxTokens == 3000

TruncatedMarker == <<".", ".", ".", "[", "t", "r", "u", "n", "c", "a", "t", "e", "d", "]">>

\* line 180 with < for <=
WithinBudget_strict(context, max_tokens) == TLen(context) < 4 * max_tokens

\* lines 178-180: estimated_tokens = len(context) / 4; estimated_tokens <= max_tokens.
\* The division is the exact one of floats: n / 4 <= m exactly when n <= 4 * m.
WithinBudget(context, max_tokens) == TLen(context) <= 4 * max_tokens

\* lines 210-211 with the length of line 194
Truncation_doubleLength(context, max_tokens) ==
    Slice(context, 0, (max_tokens * 3) * 2) \o Lit(TruncatedMarker)

\* lines 210-211: the fallback
Truncation(context, max_tokens) ==
    LET target_length == max_tokens * 3
    IN  Slice(context, 0, target_length) \o Lit(TruncatedMarker)

CompressReturned(text, calls) == [kind |-> "returned", text |-> text, calls |-> calls]

\* lines 186-211: the context is over the budget.  llm is what the LLM does in
\* this call: the client cannot be made, predict raises, or predict answers.
CompressOverBudget(context, max_tokens, llm) ==
    LET target_length == max_tokens * 3 IN
    IF llm.kind = "no_client" THEN CompressReturned(Truncation(context, max_tokens), 0)
    ELSE IF TLen(context) > target_length
    THEN (IF llm.kind = "predict_raises"
          THEN CompressReturned(Truncation(context, max_tokens), 1)
          ELSE CompressReturned(llm.text, 1))
    ELSE CompressReturned(context, 0)

LlmOutcomes ==
    { [kind |-> "no_client", text |-> <<>>], [kind |-> "predict_raises", text |-> <<>>],
      [kind |-> "summary", text |-> <<>>], [kind |-> "summary", text |-> Lit(<<"s", "u", "m">>)],
      [kind |-> "summary", text |-> Fill("s", 20000)] }

Budgets == {0, 1, 2, DefaultMaxTokens}

Contexts ==
    {Fill("c", n) : n \in 0..MaxContext}
    \cup {Lit(<<"a", "b">>) \o Fill("x", n - 4) \o Lit(<<"y", "z">>) :
             n \in {3 * DefaultMaxTokens, 4 * DefaultMaxTokens, 4 * DefaultMaxTokens + 1,
                    6 * DefaultMaxTokens + 1}}

CompressInit == CompressIdle /\ IngestIdle /\ LangIdle /\ AnswerIdle /\ MaintIdle /\ UploadIdle

\* lines 175-183: the call, and the return of a context within the budget
CC_Call ==
    /\ cc_pc = "idle"
    /\ \E context \in Contexts : \E max_tokens \in Budgets :
         /\ cc_context' = context
         /\ cc_max_tokens' = max_tokens
         /\ IF WithinBudget(context, max_tokens)
            THEN cc_result' = CompressReturned(context, 0) /\ cc_pc' = "done"
            ELSE cc_result' = cc_result /\ cc_pc' = "compress"
    /\ UNCHANGED <<cc_llm, cc_calls, ingestVars, langVars, answerVars, maintVars, uploadVars>>

\* lines 186-211: the summary, or the truncation when it fails
CC_Compress ==
    /\ cc_pc = "compress"
    /\ \E llm \in LlmOutcomes :
         /\ cc_llm' = llm
         /\ cc_result' = CompressOverBudget(cc_context, cc_max_tokens, llm)
         /\ cc_calls' = cc_calls + CompressOverBudget(cc_context, cc_max_tokens, llm).calls
    /\ cc_pc' = "done"
    /\ UNCHANGED <<cc_context, cc_max_tokens, ingestVars, langVars, answerVars, maintVars, uploadVars>>

CompressNext ==
    \/ CC_Call
    \/ CC_Compress

SpecCompress == CompressInit /\ [][CompressNext]_vars

-----------------------------------------------------------------------------
(* The maintenance operations: clear_vector_database,                      *)
(* simple_clear_vector_database, get_database_status and the endpoint      *)
(* clear_database.  The database is the directory CHROMA_DB_DIR, its file  *)
(* chroma.sqlite3 and the collections in it, each with a number of         *)
(* documents; uploads is the number of files in the uploads directory.     *)
(* A dict is a record; a message is the sequence of its parts.             *)

DefaultCollection == "langchain"

CollectionNames == {DefaultCollection, "other"}

\* the collections a database file may hold
CollectionSets ==
    {S \in SUBSET [name : CollectionNames, count : {0, MaxCount}] :
        \A a, b \in S : a.name = b.name => a = b}

Databases ==
    {[dir |-> FALSE, file |-> FALSE, collections |-> {}, uploads |-> u] : u \in 0..MaxUploads}
    \cup {[dir |-> TRUE, file |-> FALSE, collections |-> {}, uploads |-> u] : u \in 0..MaxUploads}
    \cup {[dir |-> TRUE, file |-> TRUE, collections |-> S, uploads |-> u] :
             S \in CollectionSets, u \in 0..MaxUploads}

\* the messages of the exceptions
ApiError == "chroma api error"
DeleteError == "delete collection error"
UnlinkError == "remove file error"
MakedirsError == "makedirs error"
SimpleError == "simple clear error"

\* Chroma(persist_directory=CHROMA_DB_DIR, ...): the store is opened, its
\* file and its default collection are made if they are missing
Opened(d) ==
    [d EXCEPT !.dir = TRUE, !.file = TRUE,
              !.collections =
                  IF \E c \in d.collections : c.name = DefaultCollection THEN @
                  ELSE @ \cup {[name |-> DefaultCollection, count |-> 0]}]

max_attempts == 3

\* the removal loop that goes round once more
RECURSIVE RemovalAttempts_oneMore(_, _, _)
RemovalAttempts_oneMore(attempt, gone_after, seen) ==
    IF attempt >= max_attempts + 1 THEN seen
    ELSE IF attempt + 1 = gone_after THEN Append(seen, "gone")
    ELSE RemovalAttempts_oneMore(attempt + 1, gone_after, Append(seen, "there"))

\* lines 533-565: the loop for attempt in range(max_attempts), the directory
\* being there when it begins: what os.path.exists(CHROMA_DB_DIR) says after
\* each call of shutil.rmtree; the loop breaks when the directory is gone
RECURSIVE RemovalAttempts(_, _, _)
RemovalAttempts(attempt, gone_after, seen) ==
    IF attempt >= max_attempts THEN seen
    ELSE IF attempt + 1 = gone_after THEN Append(seen, "gone")
    ELSE RemovalAttempts(attempt + 1, gone_after, Append(seen, "there"))

\* what the store, the file system and the libraries do during one clear
ClearEnvs ==
    [ api        : {"ok", "raise"},          \* the Chroma API tier up to list_collections
      undeletable : SUBSET CollectionNames,  \* the collections delete_collection raises on
      unlink     : {"ok", "raise"},          \* os.remove(db_file)
      rmtree     : 1..(max_attempts + 1),    \* the call of rmtree after which the directory
                                             \* is gone; past max_attempts: after none of them
      makedirs   : {"ok", "raise"},          \* os.makedirs(CHROMA_DB_DIR)
      uploads    : {"ok", "stuck"} ]         \* os.remove of the uploaded files

\* lines 585-590: vector_db_cleared
ClearedFlag(exists, collections_cleared, directory_removed) ==
    IF exists THEN collections_cleared \/ directory_removed ELSE TRUE

\* lines 471-612
clear_vector_database(d, e) ==
    LET exists == d.dir
        opened == Opened(d)
        failed == {c \in opened.collections : c.name \in e.undeletable}
        afterApi ==
            IF ~exists THEN d
            ELSE IF e.api = "ok" THEN [opened EXCEPT !.collections = failed]
            ELSE IF d.file /\ e.unlink = "ok"
            THEN [d EXCEPT !.file = FALSE, !.collections = {}]
            ELSE d
        collections_cleared == exists /\ (e.api = "ok" \/ (d.file /\ e.unlink = "ok"))
        rmtree == IF exists THEN RemovalAttempts(0, e.rmtree, <<>>) ELSE <<>>
        directory_removed == rmtree # <<>> /\ rmtree[Len(rmtree)] = "gone"
        removal == [rmtree |-> rmtree, directory_removed |-> directory_removed]
        afterRemoval ==
            IF directory_removed
            THEN [afterApi EXCEPT !.dir = FALSE, !.file = FALSE, !.collections = {}]
            ELSE afterApi
        vector_db_cleared == ClearedFlag(exists, collections_cleared, directory_removed)
        errors ==
            (IF exists /\ e.api = "raise" THEN {ApiError} ELSE {})
            \cup (IF exists /\ e.api = "raise" /\ d.file /\ e.unlink = "raise"
                  THEN {UnlinkError} ELSE {})
            \cup (IF exists /\ e.api = "ok" /\ failed # {} THEN {DeleteError} ELSE {})
    IN  IF e.makedirs = "raise"
        THEN [ db |-> afterRemoval,
               result |-> [success |-> FALSE, error |-> MakedirsError],
               errors |-> errors \cup {MakedirsError},
               removal |-> removal ]
        ELSE [ db |-> [afterRemoval EXCEPT !.dir = TRUE,
                                           !.uploads = IF e.uploads = "ok" THEN 0 ELSE @],
               result |->
                   [ success |-> TRUE,
                     vector_db_cleared |-> vector_db_cleared,
                     uploads_cleared |-> (e.uploads = "ok" /\ d.uploads > 0),
                     collections_cleared |-> collections_cleared,
                     method_used |->
                         IF collections_cleared THEN "collections_api"
                         ELSE IF vector_db_cleared THEN "directory_removal"
                         ELSE "none" ],
               errors |-> errors,
               removal |-> removal ]

\* lines 614-648: api is what the Chroma API does here, "ok" or "raise"
simple_clear_vector_database(d, api) ==
    IF d.dir
    THEN IF api = "ok"
         THEN [ db |-> [Opened(d) EXCEPT !.collections =
                           {IF c.name = DefaultCollection THEN [c EXCEPT !.count = 0] ELSE c :
                               c \in @}],
                result |-> [success |-> TRUE, method |-> "simple_clear",
                            vector_db_cleared |-> TRUE] ]
         ELSE [db |-> d, result |-> [success |-> FALSE, error |-> SimpleError]]
    ELSE [ db |-> d,
           result |-> [success |-> TRUE, method |-> "no_database",
                       vector_db_cleared |-> TRUE] ]

RECURSIVE TotalDocs(_)
TotalDocs(S) ==
    IF S = {} THEN 0 ELSE LET c == CHOOSE c \in S : TRUE IN c.count + TotalDocs(S \ {c})

\* lines 690-760: api is what the Chroma API does here, "ok" or "raise"
get_database_status(d, api) ==
    IF ~d.file
    THEN [ db |-> d,
           result |-> [ vector_db_exists |-> FALSE, vector_db_collections |-> 0,
                        vector_db_documents |-> 0, uploaded_files |-> d.uploads,
                        database_file_exists |-> FALSE,
                        database_completely_clear |-> TRUE ] ]
    ELSE IF api = "ok"
    THEN LET collections == Opened(d).collections
             total_docs == TotalDocs(collections)
         IN  [ db |-> Opened(d),
               result |-> [ vector_db_exists |-> TRUE,
                            vector_db_collections |-> Cardinality(collections),
                            vector_db_documents |-> total_docs,
                            uploaded_files |-> d.uploads,
                            database_file_exists |-> TRUE,
                            database_completely_clear |->
                                (Cardinality(collections) = 0 \/ total_docs = 0) ] ]
    ELSE [ db |-> d,
           result |-> [ vector_db_exists |-> TRUE, vector_db_collections |-> 0,
                        vector_db_documents |-> 0, uploaded_files |-> d.uploads,
                        database_file_exists |-> TRUE,
                        database_completely_clear |-> FALSE ] ]

\* result.get(key) of a flag: false when the key is missing
Flag(r, key) == key \in DOMAIN r /\ r[key]

\* app.py line 203: result.get("success") and result.get("vector_db_cleared")
ComprehensiveCleared(r) == Flag(r, "success") /\ Flag(r, "vector_db_cleared")

MaintInit ==
    /\ db \in Databases
    /\ db0 = db
    /\ cd_pc = "idle"
    /\ cv_result = [kind |-> "none"]
    /\ cv_errors = {}
    /\ cv_removal = [rmtree |-> <<>>, directory_removed |-> FALSE]
    /\ sc_result = [kind |-> "none"]
    /\ cd_result = [kind |-> "none"]
    /\ ds_result = [kind |-> "none"]
    /\ IngestIdle /\ LangIdle /\ AnswerIdle /\ CompressIdle /\ UploadIdle

\* app.py lines 195-200: the comprehensive tier
CD_Comprehensive ==
    /\ cd_pc = "idle"
    /\ \E e \in ClearEnvs :
         LET r == clear_vector_database(db, e) IN
         /\ db' = r.db
         /\ cv_result' = r.result
         /\ cv_errors' = r.errors
         /\ cv_removal' = r.removal
    /\ cd_pc' = "decide"
    /\ UNCHANGED <<db0, sc_result, cd_result, ds_result>>
    /\ UNCHANGED <<ingestVars, langVars, answerVars, compressVars, uploadVars>>

\* app.py lines 203-220: the comprehensive tier cleared the database
CD_Success ==
    /\ cd_pc = "decide"
    /\ ComprehensiveCleared(cv_result)
    /\ cd_result' =
          [ status |-> "success",
            message |-> IF Flag(cv_result, "uploads_cleared")
                        THEN <<"Successfully cleared: ", "vector database", " and ",
                               "uploaded files">>
                        ELSE <<"Successfully cleared: ", "vector database">>,
            details |-> cv_result ]
    /\ cd_pc' = "done"
    /\ UNCHANGED <<db, db0, cv_result, cv_errors, cv_removal, sc_result, ds_result>>
    /\ UNCHANGED <<ingestVars, langVars, answerVars, compressVars, uploadVars>>

\* app.py lines 221-237: it did not; the simple tier
CD_Simple ==
    /\ cd_pc = "decide"
    /\ ~ComprehensiveCleared(cv_result)
    /\ \E api \in {"ok", "raise"} :
         LET r == simple_clear_vector_database(db, api) IN
         /\ db' = r.db
         /\ sc_result' = r.result
         /\ cd_result' =
               IF Flag(r.result, "success")
               THEN [ status |-> "success",
                      message |-> <<"Successfully cleared vector database using simple method">>,
                      details |-> r.result ]
               ELSE [ status |-> "error",
                      message |-> <<"Both clearing methods failed. Comprehensive: ",
                                    GetOr(cv_result, "error", "Unknown error"),
                                    ". Simple: ",
                                    GetOr(r.result, "error", "Unknown error")>>,
                      details |-> [comprehensive |-> cv_result, simple |-> r.result] ]
    /\ cd_pc' = "done"
    /\ UNCHANGED <<db0, cv_result, cv_errors, cv_removal, ds_result>>
    /\ UNCHANGED <<ingestVars, langVars, answerVars, compressVars, uploadVars>>

\* get_database_status, called after the clear
DS_Status ==
    /\ cd_pc = "done"
    /\ \E api \in {"ok", "raise"} :
         LET r == get_database_status(db, api) IN
         /\ db' = r.db
         /\ ds_result' = r.result
    /\ cd_pc' = "status"
    /\ UNCHANGED <<db0, cv_result, cv_errors, cv_removal, sc_result, cd_result>>
    /\ UNCHANGED <<ingestVars, langVars, answerVars, compressVars, uploadVars>>

MaintNext ==
    \/ CD_Comprehensive
    \/ CD_Success
    \/ CD_Simple
    \/ DS_Status

SpecMaint == MaintInit /\ [][MaintNext]_vars

-----------------------------------------------------------------------------
(* upload_files: a request of several files.  Each supported file is saved *)
(* and handed to a thread that runs process_document; the request waits    *)
(* for the thread for 2 minutes.  A file is named by its place in the      *)
(* request.  The empty string stands for None.                             *)

\* what process_document does with a file: it returns a count or raises
Chunked(n) == [kind |-> "returned", chunks |-> n, message |-> ""]
Failing(message) == [kind |-> "raised", chunks |-> 0, message |-> message]

FileKinds ==
    {[named |-> FALSE, ext_ok |-> FALSE, save_ok |-> TRUE, outcome |-> Chunked(0)],
     [named |-> TRUE, ext_ok |-> FALSE, save_ok |-> TRUE, outcome |-> Chunked(0)],
     [named |-> TRUE, ext_ok |-> TRUE, save_ok |-> FALSE, outcome |-> Chunked(0)]}
    \cup {[named |-> TRUE, ext_ok |-> TRUE, save_ok |-> TRUE, outcome |-> o] :
             o \in {Chunked(1), Chunked(2), Failing("error A"), Failing("error B")}}

Batches == SeqsUpTo(FileKinds, MaxFiles) \ {<<>>}

UnsupportedMessage == "Unsupported file type"
SaveMessage == "save error"
TimeoutMessage == "Processing timeout after 2 minutes"

ErrorEntry(i, message) == [filename |-> i, status |-> "error", message |-> message]

SuccessEntry(i, chunks_count) ==
    [filename |-> i, status |-> "success", chunks_added |-> chunks_count]

\* line 85: result = {"chunks_count": 0, "error": None}
NewCell == [chunks_count |-> 0, error |-> ""]

\* lines 87-91: what the thread writes when process_document has ended
Written(cell, outcome) ==
    IF outcome.kind = "returned" THEN [cell EXCEPT !.chunks_count = outcome.chunks]
    ELSE [cell EXCEPT !.error = outcome.message]

\* Stored for a thread that is stopped when its file is reported as timed out
Stored_unlessTimedOut(st, j, outcome) ==
    IF outcome.kind = "returned" /\ outcome.chunks > 0
          /\ ErrorEntry(j, TimeoutMessage) \notin {uf_results[k] : k \in 1..Len(uf_results)}
    THEN Append(st, [file |-> j, chunks |-> outcome.chunks])
    ELSE st

\* ingestion.py lines 452-462: a process_document that returns n has written
\* the n chunks of its file to the vector store; one that raises is taken
\* to have raised before it wrote
Stored(st, j, outcome) ==
    IF outcome.kind = "returned" /\ outcome.chunks > 0
    THEN Append(st, [file |-> j, chunks |-> outcome.chunks])
    ELSE st

Running == {j \in 1..Len(uf_workers) : uf_workers[j] = "running"}

UploadInit ==
    /\ uf_pc = "idle"
    /\ uf_files = <<>>
    /\ uf_i = 0
    /\ uf_results = <<>>
    /\ uf_total = 0
    /\ uf_cells = <<>>
    /\ uf_bind = 0
    /\ uf_workers = <<>>
    /\ uf_store = <<>>
    /\ uf_response = [kind |-> "none"]
    /\ IngestIdle /\ LangIdle /\ AnswerIdle /\ CompressIdle /\ MaintIdle

\* lines 38-47: the request
UF_Call ==
    /\ uf_pc = "idle"
    /\ \E files \in Batches :
         /\ uf_files' = files
         /\ uf_cells' = [i \in 1..Len(files) |-> NewCell]
         /\ uf_workers' = [i \in 1..Len(files) |-> "none"]
    /\ uf_i' = 1
    /\ uf_pc' = "loop"
    /\ UNCHANGED <<uf_results, uf_total, uf_bind, uf_store, uf_response>>
    /\ UNCHANGED <<ingestVars, langVars, answerVars, compressVars, maintVars>>

\* line 48: a file without a name is passed over and gets no entry
UF_Unnamed ==
    /\ uf_pc = "loop" /\ uf_i <= Len(uf_files)
    /\ ~uf_files[uf_i].named
    /\ uf_i' = uf_i + 1
    /\ UNCHANGED <<uf_pc, uf_files, uf_results, uf_total, uf_cells, uf_bind, uf_workers, uf_store, uf_response>>
    /\ UNCHANGED <<ingestVars, langVars, answerVars, compressVars, maintVars>>

\* lines 53-65: a file of an unsupported type
UF_Unsupported ==
    /\ uf_pc = "loop" /\ uf_i <= Len(uf_files)
    /\ uf_files[uf_i].named /\ ~uf_files[uf_i].ext_ok
    /\ uf_results' = Append(uf_results, ErrorEntry(uf_i, UnsupportedMessage))
    /\ uf_i' = uf_i + 1
    /\ UNCHANGED <<uf_pc, uf_files, uf_total, uf_cells, uf_bind, uf_workers, uf_store, uf_response>>
    /\ UNCHANGED <<ingestVars, langVars, answerVars, compressVars, maintVars>>

\* lines 71-74, 124-135: the file cannot be saved
UF_SaveFails ==
    /\ uf_pc = "loop" /\ uf_i <= Len(uf_files)
    /\ uf_files[uf_i].named /\ uf_files[uf_i].ext_ok /\ ~uf_files[uf_i].save_ok
    /\ uf_results' = Append(uf_results, ErrorEntry(uf_i, SaveMessage))
    /\ uf_i' = uf_i + 1
    /\ UNCHANGED <<uf_pc, uf_files, uf_total, uf_cells, uf_bind, uf_workers, uf_store, uf_response>>
    /\ UNCHANGED <<ingestVars, langVars, answerVars, compressVars, maintVars>>

\* lines 71-96: the file is saved, result names a new dict, the thread starts
\* and calls process_document with the path of this file
UF_Start ==
    /\ uf_pc = "loop" /\ uf_i <= Len(uf_files)
    /\ uf_files[uf_i].named /\ uf_files[uf_i].ext_ok /\ uf_files[uf_i].save_ok
    /\ uf_bind' = uf_i
    /\ uf_cells' = [uf_cells EXCEPT ![uf_i] = NewCell]
    /\ uf_workers' = [uf_workers EXCEPT ![uf_i] = "running"]
    /\ uf_pc' = "join"
    /\ UNCHANGED <<uf_files, uf_i, uf_results, uf_total, uf_store, uf_response>>
    /\ UNCHANGED <<ingestVars, langVars, answerVars, compressVars, maintVars>>

\* lines 87-91: process_document ends in the thread of file j; the thread
\* then looks result up, and stores the count or the exception in the dict
\* that result names at that time
W_Finish ==
    /\ \E j \in Running :
         /\ uf_cells' = [uf_cells EXCEPT ![uf_bind] = Written(@, uf_files[j].outcome)]
         /\ uf_workers' = [uf_workers EXCEPT ![j] = "finished"]
         /\ uf_store' = Stored(uf_store, j, uf_files[j].outcome)
    /\ UNCHANGED <<uf_pc, uf_files, uf_i, uf_results, uf_total, uf_bind, uf_response>>
    /\ UNCHANGED <<ingestVars, langVars, answerVars, compressVars, maintVars>>

\* lines 99, 109-135: the thread has ended within the 2 minutes
UF_Joined ==
    /\ uf_pc = "join"
    /\ uf_workers[uf_i] = "finished"
    /\ LET cell == uf_cells[uf_bind] IN
       IF cell.error # ""
       THEN /\ uf_results' = Append(uf_results, ErrorEntry(uf_i, cell.error))
            /\ uf_total' = uf_total
       ELSE /\ uf_results' = Append(uf_results, SuccessEntry(uf_i, cell.chunks_count))
            /\ uf_total' = uf_total + cell.chunks_count
    /\ uf_i' = uf_i + 1
    /\ uf_pc' = "loop"
    /\ UNCHANGED <<uf_files, uf_cells, uf_bind, uf_workers, uf_store, uf_response>>
    /\ UNCHANGED <<ingestVars, langVars, answerVars, compressVars, maintVars>>

\* lines 99-108: the 2 minutes are over and the thread is alive; it stays so
UF_Timeout ==
    /\ uf_pc = "join"
    /\ uf_workers[uf_i] = "running"
    /\ uf_results' = Append(uf_results, ErrorEntry(uf_i, TimeoutMessage))
    /\ uf_i' = uf_i + 1
    /\ uf_pc' = "loop"
    /\ UNCHANGED <<uf_files, uf_total, uf_cells, uf_bind, uf_workers, uf_store, uf_response>>
    /\ UNCHANGED <<ingestVars, langVars, answerVars, compressVars, maintVars>>

\* lines 137-145
UF_Return ==
    /\ uf_pc = "loop" /\ uf_i > Len(uf_files)
    /\ uf_response' =
          [ status |-> "completed",
            files_processed |->
                Cardinality({i \in 1..Len(uf_results) : uf_results[i].status = "success"}),
            total_chunks |-> uf_total,
            results |-> uf_results ]
    /\ uf_pc' = "done"
    /\ UNCHANGED <<uf_files, uf_i, uf_results, uf_total, uf_cells, uf_bind, uf_workers, uf_store>>
    /\ UNCHANGED <<ingestVars, langVars, answerVars, compressVars, maintVars>>

UploadNext ==
    \/ UF_Call
    \/ UF_Unnamed
    \/ UF_Unsupported
    \/ UF_SaveFails
    \/ UF_Start
    \/ W_Finish
    \/ UF_Joined
    \/ UF_Timeout
    \/ UF_Return

SpecUpload == UploadInit /\ [][UploadNext]_vars

-----------------------------------------------------------------------------
(* Properties of the ingestion *)

\* the call has extracted: extracted, chunks and result are those of this call
Extracting == pd_pc # "idle"

FileType == detect_file_type(file_path)

\* the extraction met a failure: an unsupported type, a file that could not be
\* opened or parsed, a fetch that failed, a page that could not be parsed
ExtractionFailed ==
    \/ FileType = "unknown"
    \/ FileType \in Extractors \ {"url"} /\ env.open = "raise"
    \/ FileType = "url" /\ env.fetch \in {"timeout", "connection", "http", "other"}
    \/ FileType = "url" /\ env.fetch = "ssl" /\ env.retry = "fail"
    \/ FileType = "url" /\ env.fetch \in {"ok", "ssl"} /\ env.retry = "ok" /\ env.parse = "fail"

HasErrorMarker(text) == StartsWith(text, <<"E", "r", "r", "o", "r">>)

SpansSorted(spans) ==
    \A i \in 1..(Len(spans) - 1) : spans[i].char_start <= spans[i + 1].char_start

\* C1: ingesting a URL whose fetch answers HTTP 404 returns 0, raises nothing
\* and adds nothing to the vector store.
C1_Http404ReturnsZero ==
    (Extracting /\ FileType = "url" /\ env.fetch = "http")
        => (pd_pc = "done" /\ result = Returned(0) /\ store = store0)

\* C2: every failure of the extraction comes back as exactly one span with
\* error = true and a text that begins with the marker "Error"; none is raised.
C2_FailuresCarryMarker ==
    (Extracting /\ ExtractionFailed)
        => /\ ~extracted.raised
           /\ Len(extracted.metadata) = 1
           /\ "error" \in DOMAIN extracted.metadata[1]
           /\ extracted.metadata[1].error = TRUE
           /\ HasErrorMarker(extracted.text)

\* C3: when the extracted text carries the error marker, is empty or blank, or
\* the splitter gives no chunk, process_document returns 0 and has performed
\* no add_texts and no persist: the store is as it was.
C3_NothingUsableNoEffect ==
    (Extracting /\ (\/ HasErrorMarker(extracted.text)
                    \/ IsBlank(extracted.text)
                    \/ chunks = <<>> /\ ~extracted.raised))
        => /\ pd_pc = "done"
           /\ result = Returned(0)
           /\ ops = <<>>
           /\ store = store0

\* a DOCX that cannot be opened, ingested into a collection that is not empty
C3_Witness ==
    /\ pd_pc = "done"
    /\ FileType = "docx" /\ env.open = "raise"
    /\ HasErrorMarker(extracted.text)
    /\ result = Returned(0)
    /\ store # <<>>

\* C4, as claimed: for an input of a supported kind extract_text_from_file
\* never raises, its text is non-empty or begins with the error marker, and
\* its spans are in non-decreasing char_start order.
C4_TextNonEmptyOrMarked ==
    (Extracting /\ FileType \in Extractors)
        => /\ ~extracted.raised
           /\ (TLen(extracted.text) > 0 \/ HasErrorMarker(extracted.text))
           /\ SpansSorted(extracted.metadata)

\* the document itself holds no text
SourceHasNoText ==
    /\ ~ExtractionFailed
    /\ CASE FileType \in {"pdf", "docx"} -> \A i \in 1..Len(env.parts) : env.parts[i] = <<>>
         [] FileType \in {"doc", "txt"} -> env.body = <<>>
         [] FileType = "html" -> IsBlank(env.body)
         [] OTHER -> FALSE

\* C4, amended: for an input of a supported kind extract_text_from_file never
\* raises and its spans are in non-decreasing char_start order; its text is
\* non-empty or begins with the error marker, except that a document that
\* holds no text is extracted as the empty text, with no error marker.
C4_NeverRaisesSpansSorted ==
    (Extracting /\ FileType \in Extractors)
        => /\ ~extracted.raised
           /\ SpansSorted(extracted.metadata)
           /\ (TLen(extracted.text) > 0 \/ HasErrorMarker(extracted.text) \/ SourceHasNoText)
           /\ (ExtractionFailed => TLen(extracted.text) > 0)

\* a PDF that cannot be opened: the failure comes back in the text, in one span
C4_Witness ==
    /\ Extracting
    /\ FileType = "pdf" /\ env.open = "raise"
    /\ ~extracted.raised
    /\ HasErrorMarker(extracted.text)
    /\ Len(extracted.metadata) = 1

\* C5: with n > 0 chunks process_document builds one metadata record per
\* chunk, chunk_index 0..n-1, adds the n texts with their metadata, then
\* persists, then returns n: the count it returns is the number of chunks it
\* wrote.  When the embedding, the add or the persist raises, it raises and
\* returns no count.
C5_AddPersistReturnCount ==
    /\ (pd_pc \in {"add", "persist", "return"} \/ (pd_pc = "done" /\ ops # <<>>))
          => /\ Len(metadatas) = Len(chunks)
             /\ \A i \in 1..Len(chunks) : metadatas[i].chunk_index = i - 1
    /\ (ops # <<>>)
          => /\ ops \in {<<"add_texts">>, <<"add_texts", "persist">>}
             /\ Len(store) = Len(store0) + Len(chunks)
             /\ SubSeq(store, 1, Len(store0)) = store0
             /\ \A i \in 1..Len(chunks) :
                   store[Len(store0) + i] = [text |-> chunks[i], metadata |-> metadatas[i]]
    /\ (result.kind = "returned")
          => /\ pd_pc = "done"
             /\ Len(store) = Len(store0) + result.value
             /\ result.value = Len(chunks)
             /\ (chunks # <<>> => ops = <<"add_texts", "persist">>)
    /\ (pd_pc = "done" /\ chunks # <<>> /\ ops # <<"add_texts", "persist">>)
          => result = Raised

\* a document of three chunks, written and counted
C5_Witness ==
    /\ pd_pc = "done"
    /\ Len(chunks) = 3
    /\ result = Returned(3)
    /\ Len(store) = Len(store0) + 3
    /\ ops = <<"add_texts", "persist">>


-----------------------------------------------------------------------------
(* Properties of the answer pipeline *)

Retrieved == ga_pc = "retrieved"

\* the source reference of each retrieved document
Infos == [i \in 1..Len(ga_docs) |-> SourceInfo(ga_docs[i].metadata)]

\* the pair a source reference is identified by
Pair(source_info) == <<source_info.file_name, source_info.page_number>>

\* the documents whose pair no earlier document has
FirstSeen == {i \in 1..Len(ga_docs) : \A j \in 1..(i - 1) : Pair(Infos[j]) # Pair(Infos[i])}

\* C6: the sources of get_answer are the source references of the retrieved
\* documents with one entry per pair (file_name, page_number): the entry of
\* the first document with that pair, in the order of the documents; two
\* documents whose pairs differ are never merged into one entry.
C6_SourcesDedupByFilePage ==
    Retrieved =>
        /\ Len(ga_sources) = Cardinality(FirstSeen)
        /\ \A i \in FirstSeen :
              ga_sources[Cardinality({j \in FirstSeen : j <= i})] = Infos[i]
        /\ \A i \in 1..Len(ga_docs) :
              \E k \in 1..Len(ga_sources) : Pair(ga_sources[k]) = Pair(Infos[i])

\* three documents: two paragraphs of page 1 of "a1", merged into one entry,
\* and page 11 of "a", kept apart from it
C6_Witness ==
    /\ Retrieved
    /\ Len(ga_docs) = 3
    /\ Len(ga_sources) = 2
    /\ \E i, j \in 1..3 : i < j /\ Pair(Infos[i]) = Pair(Infos[j]) /\ Infos[i] # Infos[j]
    /\ \E k \in 1..2 : Pair(ga_sources[k]) = <<<<"a", "1">>, <<1>>>>
    /\ \E k \in 1..2 : Pair(ga_sources[k]) = <<<<"a">>, <<11>>>>

\* the counts the rules of detect_language are about
LangChars == Chars(lang_text)

LangLetters == Cardinality({i \in 1..Len(LangChars) : IsAlpha(LangChars[i])})

LangDiacritics ==
    Cardinality({i \in 1..Len(LangChars) : Lower(LangChars)[i] \in VietnameseChars})

LangWords == WordStarts(Normalized(Lower(LangChars)))

LangFunctionWords ==
    Cardinality({i \in LangWords :
                    WordAt(Normalized(Lower(LangChars)), i) \in vietnamese_words})

\* more than 5 in 100 letters carry a Vietnamese diacritic
DiacriticRule == LangLetters > 0 /\ 20 * LangDiacritics > LangLetters

\* more than 10 in 100 words are Vietnamese function words
WordRule == LangWords # {} /\ 10 * LangFunctionWords > Cardinality(LangWords)

\* a Vietnamese interrogative phrase occurs in the text
PhraseRule == \E pattern \in vietnamese_patterns : PatternFound(Lower(LangChars), pattern)

\* C7: detect_language answers vietnamese exactly when the ratio of letters
\* with a Vietnamese diacritic is above 0.05, or else the ratio of function
\* words is above 0.10, or else a phrase pattern matches; an empty or blank
\* text is english.
C7_VietnameseIffRules ==
    lang_result # "none" =>
        /\ lang_result \in {"english", "vietnamese"}
        /\ lang_result = "vietnamese" <=> (DiacriticRule \/ WordRule \/ PhraseRule)
        /\ IsBlank(lang_text) => lang_result = "english"

\* a text of 21 words, 2 of them function words, without diacritics, is
\* vietnamese by its phrase alone
C7_Witness ==
    /\ lang_result = "vietnamese"
    /\ LangLetters > 0 /\ ~DiacriticRule
    /\ LangFunctionWords > 0 /\ ~WordRule
    /\ PhraseRule

\* the sample of the claim: the first 200 characters of each of the first 3
\* documents, a space between them
ClaimSample ==
    LET first(i) == Slice(ga_docs[i].page_content, 0, 200) IN
    IF Len(ga_docs) = 0 THEN <<>>
    ELSE IF Len(ga_docs) = 1 THEN first(1)
    ELSE IF Len(ga_docs) = 2 THEN first(1) \o Lit(<<" ">>) \o first(2)
    ELSE first(1) \o Lit(<<" ">>) \o first(2) \o Lit(<<" ">>) \o first(3)

Took(S) == \E i \in 1..Len(ga_trace) : ga_trace[i] \in S

LastStep == IF ga_trace = <<>> THEN "none" ELSE ga_trace[Len(ga_trace)]

\* C11: get_answer takes the direct compression branch exactly when
\* use_compression is true and reranker_type is "none"; a failure inside the
\* branch leads on to the retrieval QA chain, not to an error; the result's
\* compression_used is true exactly when the branch completed and gave the
\* answer that is returned.
C11_CompressionBranchAndFlag ==
    /\ (Took({"retrieve"}) /\ ga_pc \in {"qa", "done"})
          => (Took({"compress", "compress_failed"})
                 <=> (ga_use_compression /\ ga_reranker_type = "none"))
    /\ LastStep = "compress_failed" => (ga_pc = "qa" /\ ga_result.kind = "none")
    /\ (Took({"compress_failed"}) /\ ga_pc = "done") => LastStep \in {"qa", "qa_failed"}
    /\ ga_result.kind = "returned"
          => /\ ga_result.compression_used
                   <=> (LastStep = "compress" /\ ga_result.answer = "direct")
             /\ ~ga_result.compression_used
                   <=> (LastStep = "qa" /\ ga_result.answer = "chain")

\* the branch failed, the chain answered: compression_used is false
C11_Witness ==
    /\ ga_pc = "done"
    /\ ga_use_compression /\ ga_reranker_type = "none"
    /\ ga_trace = <<"call", "retrieve", "compress_failed", "qa">>
    /\ ga_result.kind = "returned"
    /\ ~ga_result.compression_used

RerankerFaults == {"rerank_import_error", "rerank_no_credentials", "rerank_api_error"}

\* C12: when a reranker is requested and fails, whether when it is built or
\* while it re-ranks the candidates of the retrieval, and nothing else
\* fails, get_answer still returns a result.
C12_RerankerFailureSucceeds ==
    (/\ ga_pc = "done"
     /\ ga_reranker_type \in {"cohere", "llm"}
     /\ ga_faults # {}
     /\ ga_faults \subseteq RerankerFaults)
        => ga_result.kind = "returned"

\* C13: the number of documents get_answer considered, chunks_used, is at
\* most chunk_count, for every reranker_type.
C13_ChunksUsedAtMostK ==
    ga_result.kind = "returned" => ga_result.chunks_used <= ga_chunk_count

\* C17: chat returns a structured result and raises nothing, whatever fails
\* in the retrieval, the LLM or the store.
C17_ChatReturnsResult ==
    ch_pc = "done" => ch_result.kind = "returned"

-----------------------------------------------------------------------------
(* Properties of the compression *)

Compressed == cc_pc = "done"

\* C9: a context whose length over 4 is at most max_tokens is returned as it
\* is, and the LLM is not called.
C9_WithinBudgetUnchanged ==
    (Compressed /\ TLen(cc_context) <= 4 * cc_max_tokens)
        => /\ cc_result.kind = "returned"
           /\ cc_result.text = cc_context
           /\ cc_calls = 0
           /\ cc_llm.kind = "none"

\* a context of exactly 4 * 3000 characters under the default budget
C9_Witness ==
    /\ Compressed
    /\ cc_max_tokens = DefaultMaxTokens
    /\ TLen(cc_context) = 4 * DefaultMaxTokens
    /\ cc_result.text = cc_context
    /\ cc_calls = 0

SummaryFailed == cc_llm.kind \in {"no_client", "predict_raises"}

\* C10: compress_context_if_needed never raises; over the budget, with the
\* summary failing, it returns the first max_tokens * 3 characters of the
\* context followed by "...[truncated]", at most max_tokens * 3 + 14
\* characters.
C10_FailureTruncates ==
    Compressed =>
        /\ cc_result.kind = "returned"
        /\ (TLen(cc_context) > 4 * cc_max_tokens /\ SummaryFailed) =>
              /\ TLen(cc_result.text) <= cc_max_tokens * 3 + 14
              /\ TLen(cc_result.text) = Min(TLen(cc_context), cc_max_tokens * 3) + 14
              /\ \A i \in 1..(TLen(cc_result.text) - 14) :
                    CharAt(cc_result.text, i) = CharAt(cc_context, i)
              /\ \A i \in 1..14 :
                    CharAt(cc_result.text, TLen(cc_result.text) - 14 + i)
                        = TruncatedMarker[i]

\* 4 * 3000 + 1 characters under the default budget, predict raising: the
\* first 9000 characters and the marker come back
C10_Witness ==
    /\ Compressed
    /\ cc_max_tokens = DefaultMaxTokens
    /\ TLen(cc_context) = 4 * DefaultMaxTokens + 1
    /\ cc_llm.kind = "predict_raises"
    /\ cc_calls = 1
    /\ TLen(cc_result.text) = 3 * DefaultMaxTokens + 14

-----------------------------------------------------------------------------
(* Properties of the maintenance operations *)

\* the store held no document when the clear was called
StoreWasEmpty == ~db0.dir \/ \A c \in db0.collections : c.count = 0

\* C14: clear_vector_database on a store that is empty or has no directory
\* returns success = true, vector_db_cleared = true and no error, whatever
\* the collection API and the removal of the directory do.
C14_ClearOfEmptyStoreSucceeds ==
    (cd_pc # "idle" /\ StoreWasEmpty /\ MakedirsError \notin cv_errors)
        => /\ Flag(cv_result, "success")
           /\ Flag(cv_result, "vector_db_cleared")
           /\ "error" \notin DOMAIN cv_result

\* C15: after clear_database has reported success, get_database_status
\* reports database_completely_clear = true.
C15_StatusClearAfterClear ==
    (cd_pc = "status" /\ cd_result.status = "success")
        => ds_result.database_completely_clear

SimpleTierRan == sc_result # [kind |-> "none"]

\* what made the comprehensive tier fail: the error of its result, or, when
\* its result has none, the exceptions it met
ComprehensiveErrors ==
    IF "error" \in DOMAIN cv_result THEN {cv_result.error} ELSE cv_errors

InMessage(part) == \E i \in 1..Len(cd_result.message) : cd_result.message[i] = part

\* C16: clear_database runs the simple tier exactly when the comprehensive
\* tier does not report success with vector_db_cleared; when both tiers fail
\* it returns status error with a message that holds the error messages of
\* the comprehensive tier and of the simple tier; it never raises.
C16_EscalationKeepsBothErrors ==
    cd_pc \in {"done", "status"} =>
        /\ SimpleTierRan <=> ~ComprehensiveCleared(cv_result)
        /\ cd_result.status \in {"success", "error"}
        /\ (SimpleTierRan /\ ~Flag(sc_result, "success"))
              => /\ cd_result.status = "error"
                 /\ InMessage(sc_result.error)
                 /\ \A m \in ComprehensiveErrors : InMessage(m)

-----------------------------------------------------------------------------
(* Properties of upload_files *)

\* the entries a file can get by itself: by its type, by its saving, by its
\* own timeout, by what process_document does with it
OwnEntries(i) ==
    IF ~uf_files[i].ext_ok THEN {ErrorEntry(i, UnsupportedMessage)}
    ELSE IF ~uf_files[i].save_ok THEN {ErrorEntry(i, SaveMessage)}
    ELSE {ErrorEntry(i, TimeoutMessage),
          IF uf_files[i].outcome.kind = "returned"
          THEN SuccessEntry(i, uf_files[i].outcome.chunks)
          ELSE ErrorEntry(i, uf_files[i].outcome.message)}

EntriesOf(i) == {k \in 1..Len(uf_results) : uf_results[k].filename = i}

\* C18: in an upload of several files every named file gets exactly one
\* entry, and it is an entry of its own: a timeout or an exception of one
\* file makes an error entry for that file only and changes the entry of no
\* other file.
C18_EveryFileItsOwnEntry ==
    uf_pc = "done" =>
        \A i \in 1..Len(uf_files) :
            uf_files[i].named =>
                /\ Cardinality(EntriesOf(i)) = 1
                /\ \A k \in EntriesOf(i) : uf_results[k] \in OwnEntries(i)

\* C19: the files of one request are processed one after the other: the
\* process_document threads of two files never run at once.
C19_OneWorkerAtATime == Cardinality(Running) <= 1

-----------------------------------------------------------------------------
(* Properties of the span mapper *)

\* the running cumulative position before chunk i, i counting from 1
RECURSIVE CumulativePos(_)
CumulativePos(i) == IF i <= 1 THEN 0 ELSE CumulativePos(i - 1) + TLen(chunks[i - 1])

ChunkEnd(i) == CumulativePos(i) + TLen(chunks[i])

\* the spans, in document order, whose range overlaps the range of chunk i
Overlapping(i) ==
    {j \in 1..Len(extracted.metadata) :
        ~( ChunkEnd(i) <= extracted.metadata[j].char_start
           \/ CumulativePos(i) >= extracted.metadata[j].char_end )}

FirstOverlapping(i) == CHOOSE j \in Overlapping(i) : \A h \in Overlapping(i) : j <= h

\* the spans whose range holds the whole range of chunk i
Holding(i) ==
    {j \in 1..Len(extracted.metadata) :
        /\ extracted.metadata[j].char_start <= CumulativePos(i)
        /\ ChunkEnd(i) <= extracted.metadata[j].char_end}

\* C20: the metadata of a chunk, its range taken from the running cumulative
\* position, has the whitelisted fields of the first span in document order
\* that overlaps the range, and only those: a chunk inside one span has the
\* page number of that span, a chunk across a span boundary that of the
\* earlier span, a chunk that overlaps no span none of the fields.
C20_FirstOverlappingSpan ==
    \A i \in 1..Len(metadatas) :
        /\ Overlapping(i) = {} => DOMAIN metadatas[i] \cap CopiedKeys = {}
        /\ Overlapping(i) # {} =>
              LET span == extracted.metadata[FirstOverlapping(i)] IN
              /\ DOMAIN metadatas[i] \cap CopiedKeys = DOMAIN span \cap CopiedKeys
              /\ \A k \in DOMAIN span \cap CopiedKeys : metadatas[i][k] = span[k]
        /\ \A j \in Holding(i) :
              "page_number" \in DOMAIN extracted.metadata[j] =>
                  /\ "page_number" \in DOMAIN metadatas[i]
                  /\ metadatas[i].page_number = extracted.metadata[j].page_number

\* a chunk across the boundary of two pages has the number of the earlier one
C20_Witness ==
    \E i \in 1..Len(metadatas) :
        \E j \in Overlapping(i), h \in Overlapping(i) :
            /\ j < h
            /\ j = FirstOverlapping(i)
            /\ "page_number" \in DOMAIN extracted.metadata[j]
            /\ "page_number" \in DOMAIN extracted.metadata[h]
            /\ extracted.metadata[j].page_number # extracted.metadata[h].page_number
            /\ metadatas[i].page_number = extracted.metadata[j].page_number

-----------------------------------------------------------------------------
(* Properties of the chunk positions *)

\* C21: the position the ingestion uses for chunk i+1 is the position of
\* chunk i plus the length of chunk i less the overlap of the splitter.
C21_NextPositionLessOverlap ==
    \A i \in 0..(Len(metadatas) - 2) :
        CurrentPos(chunks, i + 1) = CurrentPos(chunks, i) + TLen(chunks[i + 1]) - chunk_overlap

\* the spans reach from 0 to the end of the text without a gap
SpansCoverText ==
    /\ extracted.metadata # <<>>
    /\ extracted.metadata[1].char_start = 0
    /\ extracted.metadata[Len(extracted.metadata)].char_end = TLen(extracted.text)
    /\ \A j \in 1..(Len(extracted.metadata) - 1) :
           extracted.metadata[j].char_end = extracted.metadata[j + 1].char_start
    /\ \A j \in 1..Len(extracted.metadata) :
           "page_number" \in DOMAIN extracted.metadata[j]

\* C27: when the spans of a document cover its whole text, every chunk that
\* process_document stores has a page_number, however many chunks there are.
C27_EveryStoredChunkHasPage ==
    (SpansCoverText /\ ops # <<>>) =>
        \A i \in 1..Len(chunks) :
            "page_number" \in DOMAIN store[Len(store0) + i].metadata

-----------------------------------------------------------------------------
(* Properties of extract_text_from_url *)

\* the result is an error text with the error span
InBandError(x) ==
    /\ ~x.raised
    /\ Len(x.metadata) = 1
    /\ "error" \in DOMAIN x.metadata[1]
    /\ x.metadata[1].error
    /\ x.metadata[1].char_start = 0
    /\ x.metadata[1].char_end = TLen(x.text)

\* C24: extract_text_from_url makes at most two fetch attempts.  An SSL error
\* of the first, verified one is followed by exactly one attempt without
\* verification, whose failure gives an in-band error; a timeout, a
\* connection error or an HTTP error of the first one gives an in-band error
\* with no other attempt; the function never raises.
C24_UrlFetchAttempts ==
    (pd_pc # "idle" /\ detect_file_type(file_path) = "url") =>
        LET x == extract_text_from_url(file_path, env) IN
        /\ extracted = x
        /\ ~x.raised
        /\ Len(Fetches(env)) <= 2
        /\ Fetches(env)[1] = "verify"
        /\ env.fetch = "ssl" <=> Fetches(env) = <<"verify", "no_verify">>
        /\ (env.fetch = "ssl" /\ env.retry # "ok") => InBandError(x)
        /\ env.fetch \in {"timeout", "connection", "http"} =>
               (Fetches(env) = <<"verify">> /\ InBandError(x))

\* the verified fetch fails with an SSL error and the retry fails too
C24_Witness ==
    /\ pd_pc = "done"
    /\ detect_file_type(file_path) = "url"
    /\ env.fetch = "ssl" /\ env.retry = "fail"
    /\ Fetches(env) = <<"verify", "no_verify">>
    /\ InBandError(extracted)
    /\ result = Returned(0)

-----------------------------------------------------------------------------
(* Properties of get_reranked_retriever *)

\* the reranker was asked for, of a kind the code knows, and was built
RerankerBuilt ==
    /\ ga_reranker_type \in {"cohere", "llm"}
    /\ ga_faults \cap {"rerank_import_error", "rerank_no_credentials"} = {}

\* C26: the retriever asks the similarity search for 2k candidates exactly
\* when a reranker was asked for and was built, and for k candidates when
\* reranker_type is none or a value the code does not know, or when building
\* the reranker failed.
C26_CandidatesAsked ==
    ga_retriever.kind # "none" =>
        /\ RerankerBuilt => ga_retriever.k = 2 * ga_chunk_count
        /\ ~RerankerBuilt => ga_retriever.k = ga_chunk_count
        /\ ga_retriever.kind = "plain" <=> ~RerankerBuilt

\* the Cohere reranker cannot be imported: the request goes on with k
C26_Witness ==
    /\ ch_pc = "done"
    /\ ga_reranker_type = "cohere"
    /\ "rerank_import_error" \in ga_faults
    /\ ga_chunk_count = 2
    /\ ga_retriever = [kind |-> "plain", k |-> 2]
    /\ ga_result.kind = "returned"

-----------------------------------------------------------------------------
(* Properties of the removal of the storage directory *)

\* C25: clear_vector_database tries to remove the storage directory at most
\* 3 times and stops after the first try that leaves no directory; a removal
\* that failed every time is tolerated exactly when the collections were
\* cleared (vector_db_cleared = collections_cleared or directory_removed);
\* the directory exists again when the operation returns success.
C25_RemovalAttempts ==
    cd_pc # "idle" =>
        LET tries == cv_removal.rmtree IN
        /\ Len(tries) <= 3
        /\ db0.dir => Len(tries) >= 1
        /\ \A a \in 1..(Len(tries) - 1) : tries[a] = "there"
        /\ (tries # <<>> /\ tries[Len(tries)] = "there") => Len(tries) = 3
        /\ cv_removal.directory_removed <=> (tries # <<>> /\ tries[Len(tries)] = "gone")
        /\ (Flag(cv_result, "success") /\ db0.dir) =>
              (cv_result.vector_db_cleared
                  <=> (cv_result.collections_cleared \/ cv_removal.directory_removed))
        /\ Flag(cv_result, "success") => db.dir

\* three tries leave the directory where it is; the collections were cleared
C25_Witness ==
    /\ cd_pc = "decide"
    /\ cv_removal = [rmtree |-> <<"there", "there", "there">>, directory_removed |-> FALSE]
    /\ cv_errors = {}
    /\ Flag(cv_result, "success")
    /\ cv_result.collections_cleared
    /\ cv_result.vector_db_cleared
    /\ db.dir

\* C28: clear_vector_database reports collections_cleared, and the method
\* collections_api, through the API tier only if every collection it listed
\* was deleted: none of them is still there when it says so.
C28_ClearedMeansDeleted ==
    ( /\ cd_pc = "decide"
      /\ db0.dir
      /\ ApiError \notin cv_errors
      /\ (Flag(cv_result, "collections_cleared")
            \/ Get(cv_result, "method_used") = <<"collections_api">>) )
        => Opened(db0).collections \cap db.collections = {}

-----------------------------------------------------------------------------
(* Properties of the threads left behind by a timeout *)

\* the files that were reported as timed out
TimedOut ==
    {i \in 1..Len(uf_files) :
        \E k \in 1..Len(uf_results) : uf_results[k] = ErrorEntry(i, TimeoutMessage)}

\* the sum of the counts of the success entries among the first n entries,
\* each file counted with what its own process_document returned
RECURSIVE OwnTotal(_)
OwnTotal(n) ==
    IF n = 0 THEN 0
    ELSE OwnTotal(n - 1)
           + (IF uf_results[n].status = "success"
              THEN uf_files[uf_results[n].filename].outcome.chunks ELSE 0)

\* C22: once the timeout of a file has fired, what its thread produces later,
\* a count or an exception, is discarded: it is in no entry of the response,
\* the entries of the files after it included, and not in total_chunks.
C22_OrphanResultDiscarded ==
    (uf_pc = "done" /\ TimedOut # {}) =>
        /\ \A k \in 1..Len(uf_response.results) :
              LET entry == uf_response.results[k] IN
              entry.filename \notin TimedOut => entry \in OwnEntries(entry.filename)
        /\ uf_response.total_chunks = OwnTotal(Len(uf_results))

\* the chunks the thread of file i has written to the vector store
WrittenBy(i) == {k \in 1..Len(uf_store) : uf_store[k].file = i}

\* C23: the thread of a file reported as timed out is not stopped: it goes on
\* to its end, and the chunks it then writes arrive in the vector store and
\* stay there.
C23_OrphanStillWrites ==
    \A i \in TimedOut :
        /\ uf_workers[i] \in {"running", "finished"}
        /\ (uf_workers[i] = "finished" /\ uf_files[i].outcome.kind = "returned"
              /\ uf_files[i].outcome.chunks > 0)
             => \E k \in WrittenBy(i) : uf_store[k].chunks = uf_files[i].outcome.chunks

\* the response says the file timed out, and the 2 chunks of the file are in
\* the vector store
C23_Witness ==
    /\ uf_pc = "done"
    /\ Len(uf_files) = 1
    /\ uf_response.results = <<ErrorEntry(1, TimeoutMessage)>>
    /\ uf_response.total_chunks = 0
    /\ uf_workers[1] = "finished"
    /\ uf_store = <<[file |-> 1, chunks |-> 2]>>

-----------------------------------------------------------------------------
(* Properties of get_answer while the vector store changes *)

\* C29: the documents from which get_answer builds sources and chunks_used
\* are the documents given to the LLM as the context of the answer it
\* returns, in the compression branch and in the chain, also when an
\* ingestion or a clear changes the vector store during the request.
C29_SourcesAreTheContext ==
    ga_result.kind = "returned" =>
        /\ ga_context = ga_docs
        /\ ga_result.chunks_used = Len(ga_context)
        /\ ga_result.sources = Sources(ga_context, <<>>, {})

====
